---------------------------- MODULE Spec2Model ----------------------------
(***************************************************************************)
(* package-scout: the virtual package resolution and bundling-analysis     *)
(* pipeline (CDNPackageManager, WasmBundler, WebContainerManager,          *)
(* BrowserPackageAnalyzer) as state machines, one specification per        *)
(* component, over one set of variables.                                   *)
(***************************************************************************)
EXTENDS Integers, Sequences, FiniteSets, TLC

(***************************************************************************)
(* Bounds of the model.                                                    *)
(***************************************************************************)
\* calls (analyzePackage / bundle / dispose) issued in one run of the engine model
MaxCalls == 4
\* analyzePackage calls issued in one run of the sandbox model
MaxAnalyses == 2

\* the tasks that may call into a bundler concurrently
Tasks == {"t1", "t2"}
\* the WasmBundler instances of the process (one per BrowserPackageAnalyzer)
Bundlers == {"b1", "b2"}

VARIABLES
    \* ---- WasmBundler / esbuild engine ----
    isInitialized,      \* WasmBundler.isInitialized, per instance
    engineInitCalls,    \* invocations of esbuild.initialize in the process
    engineInitFailed,   \* those invocations that rejected
    pc,                 \* per task: where it stands in its call
    on,                 \* per task: the bundler its call is on
    callsMade,          \* calls issued so far
    \* ---- BrowserPackageAnalyzer.analyzePackage / WebContainerManager ----
    spc,                \* position of the analyzePackage call
    useWebContainer,    \* options.useWebContainer
    supported,          \* what WebContainerManager.isSupported() returns
    webcontainer,       \* WebContainerManager.webcontainer: 0 (null) or a handle
    wcIsInitialized,    \* WebContainerManager.isInitialized
    live,               \* sandboxes booted and not torn down
    booted,             \* sandboxes booted so far
    acquired,           \* the current call's webContainer.initialize() succeeded
    analyses,           \* analyzePackage calls issued so far
    strategy,           \* the strategy the current call took ("none": not yet)
    installed,          \* the manifest read from node_modules (Null: not yet)
    stats,              \* the PackageStats the current call returned (Null: none)
    serror,             \* the message of the Error it threw (<<>>: none)
    \* ---- CDNPackageManager.downloadPackage ----
    dpc,                \* position of the downloadPackage call
    tree,               \* the listing the registry serves (?meta)
    files,              \* packageInfo.files
    packageFiles,       \* the Map under construction: path -> content
    fetchState,         \* per listing entry: "none", "pending", "ok", "failed"
    fetched,            \* per listing entry: the content its fetch returned
    \* ---- WasmBundler.resolveImport / the virtual-fs plugin ----
    rpc,                \* "ready", "resolved" (resolveImport ran), "hooked" (onResolve ran)
    importPath,         \* the specifier (args.path)
    importer,           \* the importing file (args.importer)
    vfiles,             \* the keys of the Map handed to bundle
    thisInSetup,        \* what `this` is bound to inside setup(build)
    result,             \* what resolveImport / onResolve produced
    \* ---- CDNPackageManager.resolveMainFile ----
    mpc,                \* "trying", "done"
    moduleField,        \* packageInfo.module (<<>>: absent)
    mainField,          \* packageInfo.main (<<>>: absent)
    remote,             \* the paths the registry serves for the package
    outcomes,           \* per candidate tried so far: did its content fetch succeed
    mainResult,         \* the returned entry point (Null: none)
    \* ---- the request and the options of the BrowserPackageAnalyzer ----
    packageName,        \* the packageName argument
    version,            \* the version argument (Undefined: not given)
    customImports,      \* options.customImports (Null: not given)
    \* ---- BrowserPackageAnalyzer.analyzePackage with the CDN strategy ----
    cpc,                \* position of the analyzePackage call
    entryPoint,         \* the entry point handed to bundler.bundle (Null: not yet)
    error,              \* the message of the Error the call threw (<<>>: none)
    \* ---- BrowserPackageAnalyzer.getPackageExportSizes ----
    xpc,                \* position of the getPackageExportSizes call
    infoFiles,          \* packageInfo.files
    badSources,         \* the paths in whose sources the engine finds errors
    task,               \* per export file: where its callback stands
    assets,             \* the assets of the result
    xerror,             \* the message of the Error the call threw (<<>>: none)
    \* ---- WasmBundler.minifyCode ----
    npc,                \* position of the minifyCode call
    code,               \* the code argument
    minifier,           \* the minifier argument (Undefined: not given)
    hasCompressionStream, \* 'CompressionStream' in globalThis
    yielded,            \* what the minifier produced: result.code, or Raised
    minified,           \* the returned {code, size, gzipSize} (Null: none)
    \* ---- CDNPackageManager.getPackageInfo ----
    ipc,                \* position of the getPackageInfo call
    defaultCDN,         \* CDNPackageManager.defaultCDN
    served,             \* the common files the registry serves
    unreachable,        \* the common files whose HEAD request fails in transport
    manifestFetch,      \* how the fetch of package.json went ("none": not yet)
    listingFetch,       \* how the fetch of ?meta went ("none": not made)
    probe,              \* per common file: where its HEAD probe stands
    existingFiles,      \* discoverCommonFiles' existingFiles
    listed,             \* the files of the returned CDNPackageInfo (Null: none)
    ierror,             \* the message of the Error the call threw (<<>>: none)
    \* ---- WebContainerManager under concurrent initialize / teardown ----
    wpc,                \* per task: where its initialize or teardown call stands
    tearing,            \* per task: the sandbox its teardown call is tearing down
    managerCalls,       \* initialize and teardown calls issued so far
    teardownCompleted   \* a teardown call has completed and no initialize call
                        \* has been started since

engineVars == <<isInitialized, engineInitCalls, engineInitFailed, pc, on, callsMade>>
sandboxVars == <<spc, useWebContainer, supported, webcontainer, wcIsInitialized,
                 live, booted, acquired, analyses, strategy, installed, stats, serror>>
downloadVars == <<dpc, tree, files, packageFiles, fetchState, fetched>>
resolveVars == <<rpc, importPath, importer, vfiles, thisInSetup, result>>
mainVars == <<mpc, moduleField, mainField, remote, outcomes, mainResult>>
requestVars == <<packageName, version, customImports>>
cdnVars == <<cpc, entryPoint, error>>
exportVars == <<xpc, infoFiles, badSources, task, assets, xerror>>
minifyVars == <<npc, code, minifier, hasCompressionStream, yielded, minified>>
infoVars == <<ipc, defaultCDN, served, unreachable, manifestFetch, listingFetch,
              probe, existingFiles, listed, ierror>>
managerVars == <<wpc, tearing, managerCalls, teardownCompleted>>
vars == <<engineVars, sandboxVars, downloadVars, resolveVars, mainVars,
          requestVars, cdnVars, exportVars, minifyVars, infoVars, managerVars>>

\* what the engine model, and the sandbox model (which runs the engine of
\* its bundler), leave alone
outsideEngine == <<sandboxVars, downloadVars, resolveVars, mainVars,
                   requestVars, cdnVars, exportVars, minifyVars, infoVars, managerVars>>
outsideSandbox == <<downloadVars, resolveVars, mainVars, requestVars, cdnVars, exportVars, minifyVars, infoVars, managerVars>>
outsideDownload == <<engineVars, sandboxVars, resolveVars, mainVars,
                     requestVars, cdnVars, exportVars, minifyVars, infoVars, managerVars>>
outsideResolve == <<engineVars, sandboxVars, downloadVars, mainVars,
                    requestVars, cdnVars, exportVars, minifyVars, infoVars, managerVars>>
outsideMain == <<engineVars, sandboxVars, downloadVars, resolveVars,
                 requestVars, cdnVars, exportVars, minifyVars, infoVars, managerVars>>
\* what the calls on the WebContainerManager leave alone, besides the engine
outsideManager == <<downloadVars, resolveVars, mainVars, requestVars,
                            cdnVars, exportVars, minifyVars, infoVars>>
\* the analysis with the CDN strategy runs downloadPackage and
\* resolveMainFile and writes to the bundler and to the downloaded Map
outsideCdn == <<sandboxVars, resolveVars, exportVars, minifyVars, infoVars, managerVars>>
\* getPackageExportSizes runs downloadPackage and the bundler
outsideExport == <<sandboxVars, resolveVars, mainVars, cdnVars, minifyVars, infoVars, managerVars>>
outsideMinify == <<engineVars, sandboxVars, downloadVars, resolveVars, mainVars,
                   requestVars, cdnVars, exportVars, infoVars, managerVars>>
outsideInfo == <<engineVars, sandboxVars, downloadVars, resolveVars, mainVars,
                 cdnVars, exportVars, minifyVars, managerVars>>

\* null / none
Null == <<"null">>

(***************************************************************************)
(* WasmBundler: lazy initialization of the esbuild engine.                 *)
(***************************************************************************)
EngineInit ==
    /\ isInitialized = [b \in Bundlers |-> FALSE]
    /\ engineInitCalls = 0
    /\ engineInitFailed = 0
    /\ pc = [t \in Tasks |-> "idle"]
    /\ on = [t \in Tasks |-> "b1"]
    /\ callsMade = 0

\* initialize(), up to its first await: the flag is read and, when it is
\* not set, esbuild.initialize is invoked at once.
InitializeEnter(t, b, after) ==
    IF isInitialized[b]
    THEN /\ pc' = [pc EXCEPT ![t] = after]
         /\ UNCHANGED <<engineInitCalls>>
    ELSE /\ pc' = [pc EXCEPT ![t] = "awaitInit"]
         /\ engineInitCalls' = engineInitCalls + 1

\* analyzePackage: await this.bundler.initialize(), then the analysis.
AnalyzePackageCall(t, b) ==
    /\ UNCHANGED outsideEngine
    /\ pc[t] = "idle"
    /\ callsMade < MaxCalls
    /\ callsMade' = callsMade + 1
    /\ on' = [on EXCEPT ![t] = b]
    /\ InitializeEnter(t, b, "running")
    /\ UNCHANGED <<isInitialized, engineInitFailed>>

\* bundle: if (!this.isInitialized) await this.initialize(), then the build.
BundleCall(t, b) ==
    /\ UNCHANGED outsideEngine
    /\ pc[t] = "idle"
    /\ callsMade < MaxCalls
    /\ callsMade' = callsMade + 1
    /\ on' = [on EXCEPT ![t] = b]
    /\ IF ~isInitialized[b]
       THEN InitializeEnter(t, b, "running")
       ELSE /\ pc' = [pc EXCEPT ![t] = "running"]
            /\ UNCHANGED engineInitCalls
    /\ UNCHANGED <<isInitialized, engineInitFailed>>

\* esbuild.initialize resolved: this.isInitialized = true.
EsbuildInitializeResolves(t) ==
    /\ UNCHANGED outsideEngine
    /\ pc[t] = "awaitInit"
    /\ isInitialized' = [isInitialized EXCEPT ![on[t]] = TRUE]
    /\ pc' = [pc EXCEPT ![t] = "running"]
    /\ UNCHANGED <<engineInitCalls, engineInitFailed, on, callsMade>>

\* esbuild.initialize rejected: 'ESBuild WASM initialization failed' is
\* thrown and the flag is left as it was.
EsbuildInitializeRejects(t) ==
    /\ UNCHANGED outsideEngine
    /\ pc[t] = "awaitInit"
    /\ engineInitFailed' = engineInitFailed + 1
    /\ pc' = [pc EXCEPT ![t] = "idle"]
    /\ UNCHANGED <<isInitialized, engineInitCalls, on, callsMade>>

\* the rest of the call (the analysis, the build) ends.
CallCompletes(t) ==
    /\ UNCHANGED outsideEngine
    /\ pc[t] = "running"
    /\ pc' = [pc EXCEPT ![t] = "idle"]
    /\ UNCHANGED <<isInitialized, engineInitCalls, engineInitFailed, on, callsMade>>

\* WasmBundler.dispose: this.isInitialized = false.
BundlerDispose(b) ==
    /\ UNCHANGED outsideEngine
    /\ callsMade < MaxCalls
    /\ callsMade' = callsMade + 1
    /\ isInitialized' = [isInitialized EXCEPT ![b] = FALSE]
    /\ UNCHANGED <<engineInitCalls, engineInitFailed, pc, on>>

\* no call is in flight
Quiescent == \A t \in Tasks : pc[t] = "idle"

(***************************************************************************)
(* The request, the options and the messages of the errors. A message is   *)
(* the sequence of its pieces: the fixed texts of the template and the     *)
(* values put between them.                                                *)
(***************************************************************************)
\* an argument that was not given
Undefined == "undefined"

PackageNames == {"pkg"}
Versions == {Undefined, "latest", "1.2.3"}
\* options.customImports: not given (Null) or an array of subpaths, each
\* one piece of the contents written from it
CustomImports == {Null, <<>>, <<"lib/a">>, <<"lib/a", "lib/b">>}

RequestInit ==
    /\ packageName \in PackageNames
    /\ version \in Versions
    /\ customImports \in CustomImports

\* the request at rest, for the specifications that take none
RequestOff ==
    /\ packageName = "pkg"
    /\ version = Undefined
    /\ customImports = Null

\* a parameter's default: (version = 'latest')
OrDefault(v, default) == IF v = Undefined THEN default ELSE v

\* const packageSpec = version === 'latest' ? packageName : `${packageName}@${version}`
packageSpec(name, v) ==
    IF OrDefault(v, "latest") = "latest" THEN <<name>> ELSE <<name, "@", v>>

\* `${error}` for an Error with the given message
ErrorText(message) == <<"Error: ">> \o message

\* what may go wrong with the manifest fetch of getPackageInfo: the response
\* is not ok, fetch rejects, response.json() rejects
ManifestFailures == {"notOk", "transport", "body"}

\* the value caught by getPackageInfo's catch, as `${error}` prints it
ManifestFailureText(spec, cause) ==
    IF cause = "notOk" THEN ErrorText(<<"Package not found: ">> \o spec)
    ELSE IF cause = "transport" THEN <<"TypeError: ", "Failed to fetch">>
    ELSE <<"SyntaxError: ", "Unexpected token">>

\* throw new Error(`Failed to fetch package info for ${packageSpec}: ${error}`)
PackageInfoError(spec, cause) ==
    <<"Failed to fetch package info for ">> \o spec \o <<": ">>
        \o ManifestFailureText(spec, cause)

\* throw new Error(`Failed to analyze package ${packageName}: ${error}`)
AnalyzeError(name, inner) ==
    <<"Failed to analyze package ", name, ": ">> \o ErrorText(inner)

\* throw new Error(`Bundling failed: ${error}`), for the rejection of
\* esbuild.build
BundlingFailed == <<"Bundling failed: ">> \o ErrorText(<<"Build failed with 1 error">>)

\* throw new Error('ESBuild WASM initialization failed')
EngineInitFailed == <<"ESBuild WASM initialization failed">>

(***************************************************************************)
(* BrowserPackageAnalyzer.analyzePackage with the sandbox strategy, and    *)
(* WebContainerManager. One analyzer (bundler b1), one call at a time.     *)
(***************************************************************************)
SandboxInit ==
    /\ spc = "idle"
    /\ useWebContainer \in BOOLEAN
    /\ supported \in BOOLEAN
    /\ webcontainer = 0
    /\ wcIsInitialized = FALSE
    /\ live = {}
    /\ booted = 0
    /\ acquired = FALSE
    /\ analyses = 0
    /\ strategy = "none"
    /\ installed = Null
    /\ stats = Null
    /\ serror = <<>>

\* the sandbox model at rest, for the specifications that do not run it
SandboxOff ==
    /\ spc = "idle"
    /\ useWebContainer = FALSE
    /\ supported = FALSE
    /\ webcontainer = 0
    /\ wcIsInitialized = FALSE
    /\ live = {}
    /\ booted = 0
    /\ acquired = FALSE
    /\ analyses = 0
    /\ strategy = "none"
    /\ installed = Null
    /\ stats = Null
    /\ serror = <<>>

\* analyzePackage runs on the analyzer's own bundler and is no task of the
\* engine model
EngineTaskVarsUnchanged == UNCHANGED <<pc, on, callsMade>>

\* WebContainerManager.isSupported()
isSupported == supported

\* a variant that asks for the option only
SelectStrategy_RequestOnly == IF useWebContainer THEN "sandbox" ELSE "cdn"
\* const useWebContainer = this.options.useWebContainer && this.webContainer.isSupported()
SelectStrategy == IF useWebContainer /\ isSupported THEN "sandbox" ELSE "cdn"

\* where analyzePackage goes once the bundler is initialized:
\* analyzeWithWebContainer starts with webContainer.initialize(), which
\* returns at once when the manager is initialized and boots otherwise.
AfterBundlerInit ==
    IF SelectStrategy = "sandbox"
    THEN IF wcIsInitialized THEN "createPackageJson" ELSE "boot"
    ELSE "cdn"

\* analyzePackage is called: await this.bundler.initialize()
AnalyzePackageStart ==
    /\ UNCHANGED outsideSandbox
    /\ spc \in {"idle", "returned", "thrown"}
    /\ analyses < MaxAnalyses
    /\ analyses' = analyses + 1
    /\ installed' = Null
    /\ stats' = Null
    /\ serror' = <<>>
    /\ IF isInitialized["b1"]
       THEN /\ spc' = AfterBundlerInit
            /\ strategy' = SelectStrategy
            /\ acquired' = (AfterBundlerInit = "createPackageJson")
            /\ UNCHANGED engineInitCalls
       ELSE /\ spc' = "awaitInit"
            /\ strategy' = "none"
            /\ acquired' = FALSE
            /\ engineInitCalls' = engineInitCalls + 1
    /\ UNCHANGED <<isInitialized, engineInitFailed, useWebContainer, supported,
                   webcontainer, wcIsInitialized, live, booted>>
    /\ EngineTaskVarsUnchanged

\* esbuild.initialize resolved; the strategy is selected
AnalyzeBundlerReady ==
    /\ UNCHANGED outsideSandbox
    /\ spc = "awaitInit"
    /\ isInitialized' = [isInitialized EXCEPT !["b1"] = TRUE]
    /\ spc' = AfterBundlerInit
    /\ strategy' = SelectStrategy
    /\ acquired' = (AfterBundlerInit = "createPackageJson")
    /\ UNCHANGED <<engineInitCalls, engineInitFailed, useWebContainer, supported,
                   webcontainer, wcIsInitialized, live, booted, analyses,
                   installed, stats, serror>>
    /\ EngineTaskVarsUnchanged

\* esbuild.initialize rejected: analyzePackage's catch wraps and rethrows
AnalyzeBundlerFails ==
    /\ UNCHANGED outsideSandbox
    /\ spc = "awaitInit"
    /\ engineInitFailed' = engineInitFailed + 1
    /\ spc' = "thrown"
    /\ serror' = AnalyzeError(packageName, EngineInitFailed)
    /\ UNCHANGED <<isInitialized, engineInitCalls, useWebContainer, supported,
                   webcontainer, wcIsInitialized, live, booted, acquired, analyses,
                   strategy, installed, stats>>
    /\ EngineTaskVarsUnchanged

\* WebContainer.boot() resolved: this.webcontainer = <the sandbox>,
\* this.isInitialized = true
BootResolves ==
    /\ UNCHANGED outsideSandbox
    /\ spc = "boot"
    /\ booted' = booted + 1
    /\ webcontainer' = booted + 1
    /\ live' = live \cup {booted + 1}
    /\ wcIsInitialized' = TRUE
    /\ acquired' = TRUE
    /\ spc' = "createPackageJson"
    /\ UNCHANGED <<engineVars, useWebContainer, supported, analyses,
                   strategy, installed, stats, serror>>

\* throw new Error('WebContainer not supported in this environment')
NotSupported == <<"WebContainer not supported in this environment">>

\* WebContainer.boot() rejected: initialize throws NotSupported, which
\* analyzePackage's catch wraps and rethrows
BootRejects ==
    /\ UNCHANGED outsideSandbox
    /\ spc = "boot"
    /\ spc' = "thrown"
    /\ serror' = AnalyzeError(packageName, NotSupported)
    /\ UNCHANGED <<engineVars, useWebContainer, supported, webcontainer,
                   wcIsInitialized, live, booted, acquired, analyses,
                   strategy, installed, stats>>

\* the steps of analyzeWithWebContainer between initialize() and teardown(),
\* in the order of the code; each awaits the sandbox and may reject
SandboxSteps == <<"createPackageJson", "installPackage", "readFile",
                  "JSON.parse", "writeFile", "teardown">>

StepIndex(s) == CHOOSE i \in 1..Len(SandboxSteps) : SandboxSteps[i] = s

\* the manifests found installed in the model: dependencies and
\* peerDependencies are the keys of the object in its own order (Null: no
\* such field), jsnextMain and module a path (<<>>: none), type and
\* sideEffects the text of the value
Manifest(deps, peers, jsnext, mod, type, effects) ==
    [name |-> "pkg", dependencies |-> deps, peerDependencies |-> peers,
     jsnextMain |-> jsnext, module |-> mod, type |-> type, sideEffects |-> effects]

InstalledManifests ==
    { Manifest(Null, Null, <<>>, <<>>, "undefined", "undefined"),
      Manifest(<<"a", "b">>, <<"react">>, <<"es", "/", "index", ".", "js">>,
               <<"esm", "/", "index", ".", "js">>, "module", "false"),
      Manifest(<<>>, <<>>, <<>>, <<>>, "commonjs", "true"),
      Manifest(<<"a">>, <<"react", "vue">>, <<>>,
               <<"esm", "/", "index", ".", "js">>, "undefined", "array") }

\* Object.keys(field || {})
KeysOf(field) == IF field = Null THEN <<>> ELSE field

\* the placeholder figures
PlaceholderSize == 50000
PlaceholderGzipSize == 15000

\* a variant that counts the peer dependencies
mockStats_PeersCounted(packageJson) ==
    [name |-> packageJson.name,
     size |-> PlaceholderSize,
     gzipSize |-> PlaceholderGzipSize,
     dependencyCount |-> Len(KeysOf(packageJson.peerDependencies)),
     hasJSNext |-> packageJson.jsnextMain # <<>>,
     hasJSModule |-> packageJson.module # <<>>,
     isModuleType |-> packageJson.type = "module",
     hasSideEffects |-> packageJson.sideEffects # "false",
     peerDependencies |-> KeysOf(packageJson.peerDependencies),
     dependencySizes |-> <<>>,
     assets |-> <<[name |-> "main", size |-> PlaceholderSize,
                   gzipSize |-> PlaceholderGzipSize, type |-> "js"]>>]
\* const mockStats: PackageStats = { ... }
mockStats(packageJson) ==
    [name |-> packageJson.name,
     size |-> PlaceholderSize,
     gzipSize |-> PlaceholderGzipSize,
     dependencyCount |-> Len(KeysOf(packageJson.dependencies)),
     hasJSNext |-> packageJson.jsnextMain # <<>>,
     hasJSModule |-> packageJson.module # <<>>,
     isModuleType |-> packageJson.type = "module",
     hasSideEffects |-> packageJson.sideEffects # "false",
     peerDependencies |-> KeysOf(packageJson.peerDependencies),
     dependencySizes |-> <<>>,
     assets |-> <<[name |-> "main", size |-> PlaceholderSize,
                   gzipSize |-> PlaceholderGzipSize, type |-> "js"]>>]

\* one of createPackageJson, installPackage, readFile, writeFile
\* succeeded: on to the next
SandboxStepOk ==
    /\ UNCHANGED outsideSandbox
    /\ spc \in {"createPackageJson", "installPackage", "readFile", "writeFile"}
    /\ spc' = SandboxSteps[StepIndex(spc) + 1]
    /\ UNCHANGED <<engineVars, useWebContainer, supported, webcontainer,
                   wcIsInitialized, live, booted, acquired, analyses,
                   strategy, installed, stats, serror>>

\* const packageJson = JSON.parse(packageJsonContent)
ManifestParsed(packageJson) ==
    /\ UNCHANGED outsideSandbox
    /\ spc = "JSON.parse"
    /\ installed' = packageJson
    /\ spc' = "writeFile"
    /\ UNCHANGED <<engineVars, useWebContainer, supported, webcontainer,
                   wcIsInitialized, live, booted, acquired, analyses,
                   strategy, stats, serror>>

\* the message of the Error a step raises: installPackage's own for a
\* non-zero exit of npm install, the sandbox's or the parser's otherwise
StepErrorText(step) ==
    IF step = "installPackage"
    THEN <<"Failed to install package ", packageName>>
             \o (IF version # Undefined THEN <<"@", version>> ELSE <<>>)
    ELSE <<"(", step, " failed)">>

\* how an exception of a step leaves analyzeWithWebContainer: it reaches the
\* catch of analyzePackage, which wraps and rethrows; nothing else runs
SandboxStepThrows ==
    /\ spc' = "thrown"
    /\ serror' = AnalyzeError(packageName, StepErrorText(spc))
    /\ UNCHANGED <<webcontainer, wcIsInitialized, live>>

\* one of them raised (a write failed, npm install exited non-zero, the
\* manifest was unreadable or no JSON)
SandboxStepFails ==
    /\ UNCHANGED outsideSandbox
    /\ spc \in {"createPackageJson", "installPackage", "readFile",
                "JSON.parse", "writeFile"}
    /\ SandboxStepThrows
    /\ UNCHANGED <<engineVars, useWebContainer, supported, booted, acquired, analyses,
                   strategy, installed, stats>>

\* WebContainerManager.teardown(): if (this.webcontainer) { teardown;
\* this.webcontainer = null; this.isInitialized = false }
Teardown ==
    IF webcontainer # 0
    THEN /\ live' = live \ {webcontainer}
         /\ webcontainer' = 0
         /\ wcIsInitialized' = FALSE
    ELSE UNCHANGED <<webcontainer, wcIsInitialized, live>>

\* await this.webContainer.teardown(); return mockStats
SandboxTeardownReturns ==
    /\ UNCHANGED outsideSandbox
    /\ spc = "teardown"
    /\ Teardown
    /\ stats' = mockStats(installed)
    /\ spc' = "returned"
    /\ UNCHANGED <<engineVars, useWebContainer, supported, booted, acquired, analyses,
                   strategy, installed, serror>>

\* the messages of the errors analyzeWithCDN throws
CdnErrors ==
    {PackageInfoError(packageSpec(packageName, version), cause) :
         cause \in {"notOk", "transport", "body"}} \cup {BundlingFailed}

\* the CDN strategy, which does not touch the sandbox, returns or throws
CdnStrategyEnds ==
    /\ UNCHANGED outsideSandbox
    /\ spc = "cdn"
    /\ \/ spc' = "returned" /\ UNCHANGED serror
       \/ \E inner \in CdnErrors :
              spc' = "thrown" /\ serror' = AnalyzeError(packageName, inner)
    /\ UNCHANGED <<engineVars, useWebContainer, supported, webcontainer,
                   wcIsInitialized, live, booted, acquired, analyses,
                   strategy, installed, stats>>

\* BrowserPackageAnalyzer.dispose(): bundler.dispose(), webContainer.teardown()
AnalyzerDispose ==
    /\ UNCHANGED outsideSandbox
    /\ spc \in {"returned", "thrown"}
    /\ isInitialized' = [isInitialized EXCEPT !["b1"] = FALSE]
    /\ Teardown
    /\ spc' = "idle"
    /\ UNCHANGED <<engineInitCalls, engineInitFailed, useWebContainer, supported,
                   booted, acquired, analyses, strategy, installed, stats, serror>>
    /\ EngineTaskVarsUnchanged

(***************************************************************************)
(* WebContainerManager under concurrent calls. initialize and teardown are *)
(* async methods: a call runs up to its await, other calls run while it    *)
(* waits, and it resumes when the awaited promise settles.                 *)
(***************************************************************************)
\* initialize and teardown calls issued in one run of the manager model
MaxManagerCalls == 5

\* the manager after construction: webcontainer = null, isInitialized = false
\* (SandboxOff) and no call in flight
ManagerOff ==
    /\ wpc = [t \in Tasks |-> "idle"]
    /\ tearing = [t \in Tasks |-> 0]
    /\ managerCalls = 0
    /\ teardownCompleted = FALSE

\* the fields of the sandbox model that the manager's calls leave alone
ManagerKeeps ==
    UNCHANGED <<spc, useWebContainer, supported, acquired, analyses, strategy,
                installed, stats, serror>>

\* if (this.isInitialized) return
AlreadyInitialized == wcIsInitialized

\* initialize() is called: it returns at once when isInitialized is set,
\* and calls WebContainer.boot() and waits for it otherwise
InitializeCall(t) ==
    /\ UNCHANGED <<engineVars, outsideManager>>
    /\ wpc[t] = "idle"
    /\ managerCalls < MaxManagerCalls
    /\ managerCalls' = managerCalls + 1
    /\ teardownCompleted' = FALSE
    /\ wpc' = [wpc EXCEPT ![t] = IF AlreadyInitialized THEN "idle" ELSE "boot"]
    /\ UNCHANGED <<tearing, webcontainer, wcIsInitialized, live, booted>>
    /\ ManagerKeeps

\* WebContainer.boot() resolved with a new sandbox: the continuation of
\* initialize stores it and sets isInitialized, whatever the fields hold
InitializeBootResolves(t) ==
    /\ UNCHANGED <<engineVars, outsideManager>>
    /\ wpc[t] = "boot"
    /\ booted' = booted + 1
    /\ live' = live \cup {booted + 1}
    /\ webcontainer' = booted + 1
    /\ wcIsInitialized' = TRUE
    /\ wpc' = [wpc EXCEPT ![t] = "idle"]
    /\ UNCHANGED <<tearing, managerCalls, teardownCompleted>>
    /\ ManagerKeeps

\* WebContainer.boot() rejected: initialize throws NotSupported and leaves
\* the fields as they are
InitializeBootRejects(t) ==
    /\ UNCHANGED <<engineVars, outsideManager>>
    /\ wpc[t] = "boot"
    /\ wpc' = [wpc EXCEPT ![t] = "idle"]
    /\ UNCHANGED <<tearing, managerCalls, teardownCompleted, webcontainer,
                   wcIsInitialized, live, booted>>
    /\ ManagerKeeps

\* teardown() is called: with a sandbox held it calls the sandbox's teardown
\* and waits for it; with none held it returns at once
TeardownCall(t) ==
    /\ UNCHANGED <<engineVars, outsideManager>>
    /\ wpc[t] = "idle"
    /\ managerCalls < MaxManagerCalls
    /\ managerCalls' = managerCalls + 1
    /\ IF webcontainer # 0
       THEN /\ wpc' = [wpc EXCEPT ![t] = "teardown"]
            /\ tearing' = [tearing EXCEPT ![t] = webcontainer]
            /\ UNCHANGED teardownCompleted
       ELSE /\ teardownCompleted' = TRUE
            /\ UNCHANGED <<wpc, tearing>>
    /\ UNCHANGED <<webcontainer, wcIsInitialized, live, booted>>
    /\ ManagerKeeps

\* the sandbox's teardown settled: this.webcontainer = null,
\* this.isInitialized = false, whatever the fields hold by now
TeardownResumes(t) ==
    /\ UNCHANGED <<engineVars, outsideManager>>
    /\ wpc[t] = "teardown"
    /\ live' = live \ {tearing[t]}
    /\ webcontainer' = 0
    /\ wcIsInitialized' = FALSE
    /\ wpc' = [wpc EXCEPT ![t] = "idle"]
    /\ tearing' = [tearing EXCEPT ![t] = 0]
    /\ teardownCompleted' = TRUE
    /\ UNCHANGED <<managerCalls, booted>>
    /\ ManagerKeeps

(***************************************************************************)
(* Strings. A path or a specifier is the sequence of its pieces: "/", "."  *)
(* and names that hold neither, so that 'lib/a.js' is                      *)
(* <<"lib", "/", "a", ".", "js">>.                                         *)
(***************************************************************************)
\* s.startsWith(prefix)
StartsWith(s, prefix) ==
    Len(s) >= Len(prefix) /\ SubSeq(s, 1, Len(prefix)) = prefix

\* s.endsWith(suffix)
EndsWith(s, suffix) ==
    Len(s) >= Len(suffix) /\ SubSeq(s, Len(s) - Len(suffix) + 1, Len(s)) = suffix

\* s.split('/'): the pieces between the separators, empty ones included
RECURSIVE Split(_)
Split(s) ==
    IF \A i \in 1..Len(s) : s[i] # "/"
    THEN <<s>>
    ELSE LET i == CHOOSE k \in 1..Len(s) :
                      s[k] = "/" /\ \A j \in 1..(k - 1) : s[j] # "/"
         IN  <<SubSeq(s, 1, i - 1)>> \o Split(SubSeq(s, i + 1, Len(s)))

\* segs.join('/')
RECURSIVE Join(_)
Join(segs) ==
    IF segs = <<>> THEN <<>>
    ELSE IF Len(segs) = 1 THEN segs[1]
    ELSE segs[1] \o <<"/">> \o Join(Tail(segs))

\* a Map<string, string>
EmptyMap == [k \in {} |-> <<>>]
\* m.set(k, v)
MapSet(m, k, v) == [p \in DOMAIN m \cup {k} |-> IF p = k THEN v ELSE m[p]]

(***************************************************************************)
(* CDNPackageManager: the listing and downloadPackage.                     *)
(***************************************************************************)
\* nodes of the registry's ?meta tree: {type, size?, files?: {name: node}};
\* size is <<>> when missing, files lists the (name, node) pairs in the
\* object's own order (a missing files and an empty one list nothing alike)
FileNode(size) == [type |-> "file", size |-> size, files |-> <<>>]
DirNode(entries) == [type |-> "directory", size |-> <<>>, files |-> entries]
Named(name, node) == [name |-> name, node |-> node]

\* obj.size || 0
SizeOrZero(obj) == IF obj.size = <<>> THEN 0 ELSE obj.size[1]

\* a variant that joins every name to the base path, the empty one too
RECURSIVE traverse_LeadingSlash(_, _)
traverse_LeadingSlash(obj, basePath) ==
    IF obj.type = "file"
    THEN <<[path |-> basePath, size |-> SizeOrZero(obj), type |-> "file"]>>
    ELSE IF obj.type = "directory"
    THEN LET entries == obj.files
             sub[i \in 0..Len(entries)] ==
                 IF i = 0 THEN <<>>
                 ELSE sub[i - 1] \o
                      traverse_LeadingSlash(entries[i].node,
                                            basePath \o <<"/">> \o entries[i].name)
         IN  sub[Len(entries)]
    ELSE <<>>

\* parseUnpkgListing's traverse(obj, basePath), with the files it pushes
RECURSIVE traverse(_, _)
traverse(obj, basePath) ==
    IF obj.type = "file"
    THEN <<[path |-> basePath, size |-> SizeOrZero(obj), type |-> "file"]>>
    ELSE IF obj.type = "directory"
    THEN LET entries == obj.files
             sub[i \in 0..Len(entries)] ==
                 IF i = 0 THEN <<>>
                 ELSE sub[i - 1] \o
                      traverse(entries[i].node,
                               IF basePath # <<>>
                               THEN basePath \o <<"/">> \o entries[i].name
                               ELSE entries[i].name)
         IN  sub[Len(entries)]
    ELSE <<>>

parseUnpkgListing(data) == traverse(data, <<>>)

\* the trees the registry serves in the model
IndexJs == <<"index", ".", "js">>
AJs == <<"a", ".", "js">>
PackageJson == <<"package", ".", "json">>
Trees ==
    { DirNode(<<>>),
      DirNode(<<Named(IndexJs, FileNode(<<10>>))>>),
      DirNode(<<Named(IndexJs, FileNode(<<10>>)),
                Named(<<"lib">>, DirNode(<<Named(AJs, FileNode(<<5>>))>>))>>),
      DirNode(<<Named(PackageJson, FileNode(<<>>)),
                Named(<<"lib">>, DirNode(<<Named(AJs, FileNode(<<5>>)),
                                           Named(IndexJs, FileNode(<<7>>))>>)),
                Named(<<"empty">>, DirNode(<<>>))>>) }

\* further listings: a file at the root, and directories three deep with a
\* name used at two depths, a size of 0 and a missing size
RootFile == FileNode(<<3>>)
DeepTree ==
    DirNode(<<Named(<<"src">>,
                    DirNode(<<Named(<<"util">>, DirNode(<<Named(AJs, FileNode(<<5>>))>>)),
                              Named(IndexJs, FileNode(<<>>))>>)),
              Named(IndexJs, FileNode(<<0>>))>>)
ListingTrees == Trees \cup {RootFile, DeepTree}

\* what a content fetch may return
Contents == {<<>>, <<"x">>, <<"y">>}

DownloadInit ==
    /\ dpc = "idle"
    /\ tree \in Trees
    /\ files = <<>>
    /\ packageFiles = EmptyMap
    /\ fetchState = <<>>
    /\ fetched = <<>>

DownloadOff ==
    /\ dpc = "idle"
    /\ tree = DirNode(<<>>)
    /\ files = <<>>
    /\ packageFiles = EmptyMap
    /\ fetchState = <<>>
    /\ fetched = <<>>

\* downloadPackage is called: getPackageInfo fetches the manifest
DownloadPackageCall ==
    /\ UNCHANGED outsideDownload
    /\ dpc = "idle"
    /\ dpc' = "manifest"
    /\ UNCHANGED <<tree, files, packageFiles, fetchState, fetched>>

\* .filter(file => file.type === 'file')
IsFileKind(file) == file.type = "file"

\* the manifest arrived and the listing was read: the Map is created and
\* one fetch is started for every entry of kind file
ManifestFetched ==
    /\ UNCHANGED outsideDownload
    /\ dpc = "manifest"
    /\ files' = parseUnpkgListing(tree)
    /\ packageFiles' = EmptyMap
    /\ fetchState' = [i \in 1..Len(files') |->
                          IF IsFileKind(files'[i]) THEN "pending" ELSE "none"]
    /\ fetched' = [i \in 1..Len(files') |-> <<>>]
    /\ dpc' = "joining"
    /\ UNCHANGED tree

\* the manifest fetch failed (not found, or the transport): getPackageInfo
\* throws and so does downloadPackage
ManifestFails ==
    /\ UNCHANGED outsideDownload
    /\ dpc = "manifest"
    /\ dpc' = "thrown"
    /\ UNCHANGED <<tree, files, packageFiles, fetchState, fetched>>

\* a variant that keys every content by the last entry's path (a loop
\* variable shared by the tasks)
StoreContent_LastPath(m, i, c) == MapSet(m, files[Len(files)].path, c)
\* packageFiles.set(file.path, content)
StoreContent(m, i, c) == MapSet(m, files[i].path, c)

\* the fetch of entry i returned content c
FetchResolves(i, c) ==
    /\ UNCHANGED outsideDownload
    /\ dpc = "joining"
    /\ fetchState[i] = "pending"
    /\ fetched' = [fetched EXCEPT ![i] = c]
    /\ packageFiles' = StoreContent(packageFiles, i, c)
    /\ fetchState' = [fetchState EXCEPT ![i] = "ok"]
    /\ UNCHANGED <<dpc, tree, files>>

\* a variant without the catch: the failure fails the whole download
OnFetchFailure_Rethrown(i) == dpc' = "thrown"
\* catch (error) { console.warn(...) }: the failure stays in the file's own task
OnFetchFailure(i) == UNCHANGED dpc

\* the fetch of entry i failed (a non-ok response, the transport, the body)
FetchRejects(i) ==
    /\ UNCHANGED outsideDownload
    /\ dpc = "joining"
    /\ fetchState[i] = "pending"
    /\ fetchState' = [fetchState EXCEPT ![i] = "failed"]
    /\ OnFetchFailure(i)
    /\ UNCHANGED <<tree, files, packageFiles, fetched>>

\* a variant that joins on the first fetch to settle (Promise.race)
allSettled_FirstSettled ==
    fetchState = <<>> \/ \E i \in 1..Len(fetchState) : fetchState[i] # "pending"
\* await Promise.allSettled(downloadPromises)
allSettled == \A i \in 1..Len(fetchState) : fetchState[i] # "pending"

\* return packageFiles
DownloadReturns ==
    /\ UNCHANGED outsideDownload
    /\ dpc = "joining"
    /\ allSettled
    /\ dpc' = "returned"
    /\ UNCHANGED <<tree, files, packageFiles, fetchState, fetched>>

(***************************************************************************)
(* WasmBundler: resolvePath, resolveImport and the virtual-fs plugin.      *)
(***************************************************************************)
\* segments a specifier of the model is made of, joined with '/'
\* ('' gives a doubled or a trailing separator)
MaxSegs == 3
SpecSegments == {<<>>, <<".">>, <<".", ".">>, <<"a">>, <<"lib">>}
Specifiers ==
    {Join(segs) : segs \in UNION {[1..n -> SpecSegments] : n \in 1..MaxSegs}}

\* importing files: '' is what the engine gives for the entry point
Importers == {<<>>, <<"index", ".", "js">>, <<"lib", "/", "b", ".", "js">>}

\* keys a virtual file set of the model may hold
FileKeys ==
    { <<"a">>, <<"a", ".", "js">>, <<"a", ".", "mjs">>, <<"a", ".", "ts">>,
      <<"a", "/", "index", ".", "js">>, <<"a", "/", "index", ".", "mjs">>,
      <<"a", "/", "index", ".", "ts">>,
      <<"lib", "/", "a">>, <<"lib", "/", "a", ".", "ts">>,
      <<"a", "/", "a">>,
      <<"node_modules", "/", "a">>,
      <<"node_modules", "/", "a", "/", "index", ".", "js">>,
      <<"node_modules", "/", "a", "/", "index", ".", "mjs">>,
      <<"node_modules", "/", "a", "/", "dist", "/", "index", ".", "js">>,
      <<"node_modules", "/", "a", "/", "lib", "/", "index", ".", "js">> }

\* the file sets of the model: those of at most two keys
FileSets == {{}} \cup {{k1, k2} : k1 \in FileKeys, k2 \in FileKeys}

\* what a raised TypeError is recorded as
TypeError == <<"TypeError">>

\* a variant that keeps a '..' it cannot apply (as path.join does)
Pop_KeepsDotDot(parts) ==
    IF parts = <<>> THEN << <<".", ".">> >> ELSE SubSeq(parts, 1, Len(parts) - 1)
\* parts.pop()
Pop(parts) == IF parts = <<>> THEN <<>> ELSE SubSeq(parts, 1, Len(parts) - 1)

\* resolvePath(basePath, relativePath)
resolvePath(basePath, relativePath) ==
    LET NonEmpty(p) == p # <<>>
        baseParts == SelectSeq(Split(basePath), NonEmpty)
        relativeParts == SelectSeq(Split(relativePath), NonEmpty)
        parts[i \in 0..Len(relativeParts)] ==
            IF i = 0 THEN baseParts
            ELSE IF relativeParts[i] = <<".", ".">> THEN Pop(parts[i - 1])
            ELSE IF relativeParts[i] # <<".">> THEN Append(parts[i - 1], relativeParts[i])
            ELSE parts[i - 1]
    IN  Join(parts[Len(relativeParts)])

\* for (const c of candidates) { if (files.has(c)) return c }, from the i-th on
RECURSIVE Probe(_, _, _)
Probe(candidates, i, F) ==
    IF i > Len(candidates) THEN Null
    ELSE IF candidates[i] \in F THEN candidates[i]
    ELSE Probe(candidates, i + 1, F)

\* a variant that tries '.js' before the exact path
relativeSuffixes_JsBeforeExact ==
    << <<".", "js">>, <<>>, <<".", "mjs">>, <<".", "ts">>,
       <<"/", "index", ".", "js">>, <<"/", "index", ".", "mjs">>,
       <<"/", "index", ".", "ts">> >>
\* ['', '.js', '.mjs', '.ts', '/index.js', '/index.mjs', '/index.ts']
relativeSuffixes ==
    << <<>>, <<".", "js">>, <<".", "mjs">>, <<".", "ts">>,
       <<"/", "index", ".", "js">>, <<"/", "index", ".", "mjs">>,
       <<"/", "index", ".", "ts">> >>

\* a variant that looks into dist before the package's own index files
packagePaths_DistFirst(ip) ==
    LET base == <<"node_modules", "/">> \o ip
    IN  << base,
           base \o <<"/", "dist", "/", "index", ".", "js">>,
           base \o <<"/", "index", ".", "js">>,
           base \o <<"/", "index", ".", "mjs">>,
           base \o <<"/", "lib", "/", "index", ".", "js">> >>
\* the packagePaths of a bare specifier
packagePaths(ip) ==
    LET base == <<"node_modules", "/">> \o ip
    IN  << base,
           base \o <<"/", "index", ".", "js">>,
           base \o <<"/", "index", ".", "mjs">>,
           base \o <<"/", "dist", "/", "index", ".", "js">>,
           base \o <<"/", "lib", "/", "index", ".", "js">> >>

\* importer.split('/').slice(0, -1).join('/')
importerDir(imp) ==
    LET segs == Split(imp) IN Join(SubSeq(segs, 1, Len(segs) - 1))

\* importPath.startsWith('./') || importPath.startsWith('../')
IsRelative(ip) == StartsWith(ip, <<".", "/">>) \/ StartsWith(ip, <<".", ".", "/">>)

\* resolveImport(importPath, importer, files)
resolveImport(ip, imp, F) ==
    LET resolved == resolvePath(importerDir(imp), ip)
        relHit == IF IsRelative(ip)
                  THEN Probe([i \in 1..Len(relativeSuffixes) |->
                                  resolved \o relativeSuffixes[i]], 1, F)
                  ELSE Null
    IN  IF relHit # Null THEN relHit
        ELSE IF ~StartsWith(ip, <<".">>) THEN Probe(packagePaths(ip), 1, F)
        ELSE Null

\* `this` inside setup(build) and the arrow functions it registers: the
\* plugin object when the engine calls plugin.setup(build), undefined when it
\* calls the function detached; the WasmBundler in neither case
ThisBindings == {"plugin", "undefined"}

\* whether this.resolveImport / this.getLoader is a function
HasBundlerMethods(this) == this = "WasmBundler"

\* a variant without the files.has(args.path) test
onResolve_NoVerbatim(path, imp, F, this) ==
    IF ~HasBundlerMethods(this) THEN TypeError
    ELSE LET resolved == resolveImport(path, imp, F)
         IN  IF resolved # Null /\ resolved # <<>> /\ resolved \in F
             THEN resolved ELSE Null
\* the onResolve callback of the virtual-fs plugin: the path, Null (left to
\* the engine) or TypeError (the callback raised)
onResolve(path, imp, F, this) ==
    IF path \in F THEN path
    ELSE IF ~HasBundlerMethods(this) THEN TypeError
    ELSE LET resolved == resolveImport(path, imp, F)
         IN  IF resolved # Null /\ resolved # <<>> /\ resolved \in F
             THEN resolved ELSE Null

ResolveInit ==
    /\ rpc = "ready"
    /\ importPath \in Specifiers
    /\ importer \in Importers
    /\ vfiles \in FileSets
    /\ thisInSetup = "undefined"
    /\ result = Null

ResolveOff ==
    /\ rpc = "ready"
    /\ importPath = <<>>
    /\ importer = <<>>
    /\ vfiles = {}
    /\ thisInSetup = "undefined"
    /\ result = Null

\* resolveImport is applied to the inputs
ResolveImportCall ==
    /\ UNCHANGED outsideResolve
    /\ rpc = "ready"
    /\ result' = resolveImport(importPath, importer, vfiles)
    /\ rpc' = "resolved"
    /\ UNCHANGED <<importPath, importer, vfiles, thisInSetup>>

\* the engine runs the plugin's setup and calls its onResolve callback
OnResolveCall(this) ==
    /\ UNCHANGED outsideResolve
    /\ rpc = "ready"
    /\ thisInSetup' = this
    /\ result' = onResolve(importPath, importer, vfiles, this)
    /\ rpc' = "hooked"
    /\ UNCHANGED <<importPath, importer, vfiles>>

(***************************************************************************)
(* CDNPackageManager.resolveMainFile.                                      *)
(***************************************************************************)
EsmIndexJs == <<"esm", "/", "index", ".", "js">>
IndexMjs == <<"index", ".", "mjs">>
DistIndexJs == <<"dist", "/", "index", ".", "js">>
LibIndexJs == <<"lib", "/", "index", ".", "js">>

\* a variant that prefers main to module
entryPoints_MainFirst ==
    LET Truthy(e) == e # <<>>
    IN  SelectSeq(<<mainField, moduleField, IndexJs, IndexMjs, DistIndexJs, LibIndexJs>>,
                  Truthy)
\* [module, main, 'index.js', 'index.mjs', 'dist/index.js',
\*  'lib/index.js'].filter(Boolean)
entryPoints ==
    LET Truthy(e) == e # <<>>
    IN  SelectSeq(<<moduleField, mainField, IndexJs, IndexMjs, DistIndexJs, LibIndexJs>>,
                  Truthy)

MainInit ==
    /\ mpc = "idle"
    /\ moduleField \in {<<>>, EsmIndexJs, IndexMjs}
    /\ mainField \in {<<>>, IndexJs, LibIndexJs}
    /\ remote \in SUBSET {EsmIndexJs, IndexJs, IndexMjs, DistIndexJs, LibIndexJs}
    /\ outcomes = <<>>
    /\ mainResult = Null

MainOff ==
    /\ mpc = "idle"
    /\ moduleField = <<>>
    /\ mainField = <<>>
    /\ remote = {}
    /\ outcomes = <<>>
    /\ mainResult = Null

\* resolveMainFile is called and fetches the content of its first candidate
ResolveMainFileCall ==
    /\ UNCHANGED outsideMain
    /\ mpc = "idle"
    /\ mpc' = "trying"
    /\ UNCHANGED <<moduleField, mainField, remote, outcomes, mainResult>>

\* the candidate whose content is being fetched
Current == entryPoints[Len(outcomes) + 1]

\* getFileContent returned: return entryPoint
ContentFetchOk ==
    /\ UNCHANGED outsideMain
    /\ mpc = "trying"
    /\ Current \in remote
    /\ outcomes' = Append(outcomes, TRUE)
    /\ mainResult' = Current
    /\ mpc' = "done"
    /\ UNCHANGED <<moduleField, mainField, remote>>

\* getFileContent threw (the file is not served, or the transport failed):
\* continue with the next candidate, return null after the last
ContentFetchFails ==
    /\ UNCHANGED outsideMain
    /\ mpc = "trying"
    /\ outcomes' = Append(outcomes, FALSE)
    /\ IF Len(outcomes) + 1 = Len(entryPoints)
       THEN mpc' = "done" /\ mainResult' = Null
       ELSE UNCHANGED <<mpc, mainResult>>
    /\ UNCHANGED <<moduleField, mainField, remote>>

(***************************************************************************)
(* WasmBundler.bundle: the build of an entry point over a virtual file set *)
(* (a Map path -> content).                                                *)
(***************************************************************************)
\* path.split('.').pop(): what follows the last '.', the whole path without one
LastExtension(path) ==
    IF \E i \in 1..Len(path) : path[i] = "."
    THEN LET last == CHOOSE i \in 1..Len(path) :
                         path[i] = "." /\ \A j \in (i + 1)..Len(path) : path[j] # "."
         IN  SubSeq(path, last + 1, Len(path))
    ELSE path

\* getLoader(path); the names of the model are in lower case
getLoader(path) ==
    LET ext == LastExtension(path)
    IN  IF ext \in {<<"ts">>, <<"tsx">>, <<"jsx">>, <<"json">>, <<"css">>}
        THEN ext[1] ELSE "js"

\* the onLoad callback of the virtual-fs plugin: the contents with their
\* loader, null (left to the engine) or TypeError (the callback raised)
onLoad(path, M, this) ==
    LET contents == IF path \in DOMAIN M THEN M[path] ELSE <<>>
    IN  IF contents # <<>>
        THEN IF HasBundlerMethods(this)
             THEN [kind |-> "contents", contents |-> contents,
                   loader |-> getLoader(path)]
             ELSE [kind |-> "TypeError"]
        ELSE [kind |-> "null"]

\* esbuild.build for the entry point, up to the load of the entry file: the
\* entry point goes through onResolve with importer '' and, resolved,
\* through onLoad. A callback that raises fails the build; a path neither
\* callback takes is left to the engine, which has no file system to find it
\* on; a file that loads builds unless the engine reports errors in it.
BuildOutcome(entry, M, this, engineErrors) ==
    LET resolved == onResolve(entry, <<>>, DOMAIN M, this)
    IN  IF resolved = TypeError \/ resolved = Null THEN "failed"
        ELSE LET loaded == onLoad(resolved, M, this)
             IN  IF loaded.kind \in {"TypeError", "null"} THEN "failed"
                 ELSE IF engineErrors THEN "failed"
                 ELSE "built"

(***************************************************************************)
(* BrowserPackageAnalyzer.analyzePackage with the CDN strategy. One        *)
(* analyzer (bundler b1), one call; downloadPackage and resolveMainFile    *)
(* run as in their own models.                                             *)
(***************************************************************************)
EntryJs == <<"entry", ".", "js">>

\* customImports.map(imp => `export * from './${imp}';`).join('\n'), or
\* `export * from './index.js';`
EntryContent(imports) ==
    IF imports # Null
    THEN LET line[i \in 0..Len(imports)] ==
                 IF i = 0 THEN <<>>
                 ELSE line[i - 1] \o (IF i > 1 THEN <<"\n">> ELSE <<>>)
                          \o <<"export * from './", imports[i], "';">>
         IN  line[Len(imports)]
    ELSE <<"export * from './", "index.js", "';">>

CdnInit ==
    /\ cpc = "idle"
    /\ entryPoint = Null
    /\ error = <<>>

CdnOff ==
    /\ cpc = "idle"
    /\ entryPoint = Null
    /\ error = <<>>

\* the manifests and the registries of this model: a part of those of the
\* resolveMainFile model
CdnInputs ==
    /\ moduleField \in {<<>>, EsmIndexJs}
    /\ mainField \in {<<>>, IndexJs}
    /\ remote \in {{}, {IndexJs}, {EsmIndexJs, IndexJs}, {LibIndexJs}}

\* what an action of analyzePackage leaves alone but for the variables named
CdnKeeps(changed) ==
    /\ UNCHANGED outsideCdn
    /\ UNCHANGED requestVars
    /\ IF "engine" \in changed THEN TRUE ELSE UNCHANGED engineVars
    /\ IF "files" \in changed THEN TRUE ELSE UNCHANGED packageFiles
    /\ IF "entry" \in changed THEN TRUE ELSE UNCHANGED entryPoint
    /\ IF "error" \in changed THEN TRUE ELSE UNCHANGED error
    /\ UNCHANGED <<dpc, tree, files, fetchState, fetched>>
    /\ UNCHANGED mainVars

\* analyzePackage is called on the fresh analyzer: await this.bundler.initialize()
CdnAnalyzePackageCall ==
    /\ cpc = "idle"
    /\ ~isInitialized["b1"]
    /\ cpc' = "awaitInit"
    /\ engineInitCalls' = engineInitCalls + 1
    /\ UNCHANGED <<isInitialized, engineInitFailed, pc, on, callsMade>>
    /\ CdnKeeps({"engine"})

\* esbuild.initialize rejected: analyzePackage's catch wraps and rethrows
CdnBundlerFails ==
    /\ cpc = "awaitInit"
    /\ engineInitFailed' = engineInitFailed + 1
    /\ error' = AnalyzeError(packageName, EngineInitFailed)
    /\ cpc' = "thrown"
    /\ UNCHANGED <<isInitialized, engineInitCalls, pc, on, callsMade>>
    /\ CdnKeeps({"engine", "error"})

\* esbuild.initialize resolved; the CDN strategy is selected and
\* analyzeWithCDN awaits cdnManager.getPackageInfo
CdnBundlerReady ==
    /\ cpc = "awaitInit"
    /\ SelectStrategy = "cdn"
    /\ isInitialized' = [isInitialized EXCEPT !["b1"] = TRUE]
    /\ cpc' = "getPackageInfo"
    /\ UNCHANGED <<engineInitCalls, engineInitFailed, pc, on, callsMade>>
    /\ CdnKeeps({"engine"})

\* getPackageInfo threw
CdnGetPackageInfoThrows(cause) ==
    /\ cpc = "getPackageInfo"
    /\ error' = AnalyzeError(packageName,
                     PackageInfoError(packageSpec(packageName, version), cause))
    /\ cpc' = "thrown"
    /\ CdnKeeps({"error"})

\* getPackageInfo returned: await cdnManager.downloadPackage
CdnGetPackageInfoReturns ==
    /\ cpc = "getPackageInfo"
    /\ cpc' = "downloadPackage"
    /\ CdnKeeps({})

\* downloadPackage starts, as in its own model
CdnDownloadPackageCall == cpc = "downloadPackage" /\ DownloadPackageCall

\* downloadPackage threw (its own getPackageInfo did)
CdnDownloadThrows(cause) ==
    /\ cpc = "downloadPackage"
    /\ dpc = "thrown"
    /\ error' = AnalyzeError(packageName,
                     PackageInfoError(packageSpec(packageName, version), cause))
    /\ cpc' = "thrown"
    /\ CdnKeeps({"error"})

\* downloadPackage returned: await cdnManager.resolveMainFile(packageInfo)
CdnDownloadReturns ==
    /\ cpc = "downloadPackage"
    /\ dpc = "returned"
    /\ cpc' = "resolveMainFile"
    /\ CdnKeeps({})

\* resolveMainFile starts, as in its own model
CdnResolveMainFileCall == cpc = "resolveMainFile" /\ ResolveMainFileCall

\* resolveMainFile returned: the entry point is its result or 'index.js',
\* 'entry.js' is added to the Map when the entry point is no key of it, and
\* bundler.bundle(entryPoint, packageFiles) starts the build
CdnBundleCall ==
    /\ cpc = "resolveMainFile"
    /\ mpc = "done"
    /\ LET entry == IF mainResult # Null /\ mainResult # <<>> THEN mainResult
                    ELSE IndexJs
       IN  /\ entryPoint' = entry
           /\ packageFiles' =
                  IF entry \notin DOMAIN packageFiles
                  THEN MapSet(packageFiles, EntryJs, EntryContent(customImports))
                  ELSE packageFiles
    /\ cpc' = "bundle"
    /\ CdnKeeps({"files", "entry"})

\* esbuild.build settled: bundle throws 'Bundling failed', which
\* analyzePackage's catch wraps, or returns the code, which goes to minifyCode
CdnBuildSettles(this, engineErrors) ==
    /\ cpc = "bundle"
    /\ IF BuildOutcome(entryPoint, packageFiles, this, engineErrors) = "built"
       THEN cpc' = "minifyCode" /\ UNCHANGED error
       ELSE cpc' = "thrown" /\ error' = AnalyzeError(packageName, BundlingFailed)
    /\ CdnKeeps({"error"})

\* the package spec in the URL of a getFileContent request (the version
\* parameter defaults to 'latest')
getFileContentSpec(name, v) == packageSpec(name, v)

\* the package specs in the URLs of the requests the analysis has issued so
\* far: getPackageInfo(packageName, version) for the manifest and the
\* listing, the same again inside downloadPackage(packageName, version),
\* getFileContent(packageName, file.path, version) for every file, and
\* resolveMainFile's getFileContent(packageInfo.name, entryPoint)
RequestTargets ==
    (IF \/ cpc \in {"getPackageInfo", "downloadPackage", "resolveMainFile",
                    "bundle", "minifyCode"}
        \/ cpc = "thrown" /\ error # AnalyzeError(packageName, EngineInitFailed)
     THEN {packageSpec(packageName, version)} ELSE {})
    \cup (IF dpc # "idle" THEN {packageSpec(packageName, version)} ELSE {})
    \cup {getFileContentSpec(packageName, version) :
              i \in {j \in 1..Len(fetchState) : fetchState[j] # "none"}}
    \cup (IF mpc # "idle" THEN {getFileContentSpec(packageName, Undefined)} ELSE {})

(***************************************************************************)
(* CDNPackageManager.discoverCommonFiles: the candidates and the sizes.     *)
(***************************************************************************)
IndexTs == <<"index", ".", "ts">>
DistIndexMjs == <<"dist", "/", "index", ".", "mjs">>
DistIndexUmdJs == <<"dist", "/", "index", ".", "umd", ".", "js">>
SrcIndexJs == <<"src", "/", "index", ".", "js">>
SrcIndexTs == <<"src", "/", "index", ".", "ts">>
ReadmeMd == <<"README", ".", "md">>
License == <<"LICENSE">>

\* discoverCommonFiles' commonFiles
commonFiles ==
    << PackageJson, IndexJs, IndexMjs, IndexTs, DistIndexJs, DistIndexMjs,
       DistIndexUmdJs, LibIndexJs, SrcIndexJs, SrcIndexTs, ReadmeMd, License >>

\* response.headers.get('content-length') of a HEAD response, the sequence
\* of its characters: <<>> when the header is missing or empty
ContentLength(path) ==
    IF path = PackageJson THEN <<>>
    ELSE IF path = IndexJs THEN <<"1", "0">>
    ELSE <<"0", "7">>

\* the digits a string of decimal digits stands for, after those read so far
RECURSIVE DecimalValue(_, _)
DecimalValue(digits, read) ==
    IF digits = <<>> THEN read
    ELSE DecimalValue(Tail(digits),
                      10 * read + (CHOOSE n \in 0..9 : ToString(n) = Head(digits)))

\* parseInt(header || '0', 10)
ParsedLength(header) ==
    IF header = <<>> THEN DecimalValue(<<"0">>, 0) ELSE DecimalValue(header, 0)

\* the file list discoverCommonFiles returns for a registry that serves the
\* files of a tree and answers every probe, when the probes complete in the
\* order they were started in
ProbedListing(data) ==
    LET servedPaths == {parseUnpkgListing(data)[i].path :
                            i \in 1..Len(parseUnpkgListing(data))}
        Found(path) == path \in servedPaths
        Entry(path) == [path |-> path, size |-> ParsedLength(ContentLength(path)),
                        type |-> "file"]
        found == SelectSeq(commonFiles, Found)
    IN  [i \in 1..Len(found) |-> Entry(found[i])]

\* the file lists getFileList may return for such a registry: the parsed
\* listing, or what the probes find when the listing request fails
FileLists(data) == {parseUnpkgListing(data), ProbedListing(data)}

(***************************************************************************)
(* BrowserPackageAnalyzer.getPackageExportSizes. One fresh analyzer        *)
(* (bundler b1), one call; downloadPackage runs as in its own model.       *)
(***************************************************************************)
\* a package of three script files
ThreeScripts ==
    DirNode(<<Named(IndexJs, FileNode(<<10>>)),
              Named(<<"lib">>, DirNode(<<Named(<<"a", ".", "mjs">>, FileNode(<<5>>)),
                                         Named(<<"b", ".", "ts">>, FileNode(<<7>>))>>))>>)

\* the trees the registry serves in this model
ExportTrees == Trees \cup {ThreeScripts}

\* file.type === 'file' && (file.path.endsWith('.js') ||
\* file.path.endsWith('.mjs') || file.path.endsWith('.ts'))
IsExportFile(file) ==
    /\ file.type = "file"
    /\ \/ EndsWith(file.path, <<".", "js">>)
       \/ EndsWith(file.path, <<".", "mjs">>)
       \/ EndsWith(file.path, <<".", "ts">>)

\* const exportFiles = packageInfo.files.filter(...)
exportFiles == SelectSeq(infoFiles, IsExportFile)

\* packageFiles.get(path), '' standing for undefined as well: both are falsy
ContentOf(path) == IF path \in DOMAIN packageFiles THEN packageFiles[path] ELSE <<>>

ExportInit ==
    /\ xpc = "idle"
    /\ infoFiles = <<>>
    /\ badSources \in SUBSET {f.path : f \in {parseUnpkgListing(tree)[i] :
                                              i \in 1..Len(parseUnpkgListing(tree))}}
    /\ task = <<>>
    /\ assets = <<>>
    /\ xerror = <<>>

ExportOff ==
    /\ xpc = "idle"
    /\ infoFiles = <<>>
    /\ badSources = {}
    /\ task = <<>>
    /\ assets = <<>>
    /\ xerror = <<>>

\* the registry of this model
ExportDownloadInit ==
    /\ dpc = "idle"
    /\ tree \in ExportTrees
    /\ files = <<>>
    /\ packageFiles = EmptyMap
    /\ fetchState = <<>>
    /\ fetched = <<>>

\* getPackageExportSizes is called: await cdnManager.getPackageInfo
GetPackageExportSizesCall ==
    /\ UNCHANGED <<outsideExport, engineVars, downloadVars, requestVars>>
    /\ xpc = "idle"
    /\ xpc' = "getPackageInfo"
    /\ UNCHANGED <<infoFiles, badSources, task, assets, xerror>>

\* getPackageInfo threw: nothing catches it
ExportGetPackageInfoThrows(cause) ==
    /\ UNCHANGED <<outsideExport, engineVars, downloadVars, requestVars>>
    /\ xpc = "getPackageInfo"
    /\ xerror' = PackageInfoError(packageSpec(packageName, version), cause)
    /\ xpc' = "thrown"
    /\ UNCHANGED <<infoFiles, badSources, task, assets>>

\* getPackageInfo returned the descriptor, with the file list its own
\* getFileList call obtained: await cdnManager.downloadPackage
ExportGetPackageInfoReturns(list) ==
    /\ UNCHANGED <<outsideExport, engineVars, downloadVars, requestVars>>
    /\ xpc = "getPackageInfo"
    /\ list \in FileLists(tree)
    /\ infoFiles' = list
    /\ xpc' = "downloadPackage"
    /\ UNCHANGED <<badSources, task, assets, xerror>>

\* downloadPackage starts, as in its own model
ExportDownloadPackageCall == xpc = "downloadPackage" /\ DownloadPackageCall

\* downloadPackage threw (its own getPackageInfo did): nothing catches it
ExportDownloadThrows(cause) ==
    /\ UNCHANGED <<outsideExport, engineVars, downloadVars, requestVars>>
    /\ xpc = "downloadPackage"
    /\ dpc = "thrown"
    /\ xerror' = PackageInfoError(packageSpec(packageName, version), cause)
    /\ xpc' = "thrown"
    /\ UNCHANGED <<infoFiles, badSources, task, assets>>

\* how the callback of an export file starts, up to its first await: it
\* returns null for a file without content, and calls bundler.bundle for the
\* others, which awaits initialize() unless the flag is set
TaskStart(path) ==
    IF ContentOf(path) = <<>> THEN "skipped"
    ELSE IF isInitialized["b1"] THEN "build"
    ELSE "awaitInit"

\* downloadPackage returned: exportFiles.map(...) starts the callbacks of
\* all the export files, one after the other, and Promise.all awaits them
ExportBatchStarts ==
    /\ UNCHANGED <<outsideExport, downloadVars, requestVars>>
    /\ xpc = "downloadPackage"
    /\ dpc = "returned"
    /\ task' = [i \in 1..Len(exportFiles) |-> TaskStart(exportFiles[i].path)]
    /\ engineInitCalls' = engineInitCalls
           + Cardinality({i \in 1..Len(exportFiles) : task'[i] = "awaitInit"})
    /\ xpc' = "batch"
    /\ UNCHANGED <<isInitialized, engineInitFailed, pc, on, callsMade>>
    /\ UNCHANGED <<infoFiles, badSources, assets, xerror>>

\* esbuild.initialize resolved for the callback of file i: the flag is set
\* and bundle goes on to esbuild.build
ExportInitResolves(i) ==
    /\ UNCHANGED <<outsideExport, downloadVars, requestVars>>
    /\ xpc = "batch"
    /\ task[i] = "awaitInit"
    /\ isInitialized' = [isInitialized EXCEPT !["b1"] = TRUE]
    /\ task' = [task EXCEPT ![i] = "build"]
    /\ UNCHANGED <<engineInitCalls, engineInitFailed, pc, on, callsMade>>
    /\ UNCHANGED <<xpc, infoFiles, badSources, assets, xerror>>

\* catch (error) { ...; return null }: the failure stays in the callback
OnExportFailure(i, how) ==
    /\ task' = [task EXCEPT ![i] = how]
    /\ UNCHANGED xpc

\* esbuild.initialize rejected for the callback of file i: bundle throws
ExportInitRejects(i) ==
    /\ UNCHANGED <<outsideExport, downloadVars, requestVars>>
    /\ xpc = "batch"
    /\ task[i] = "awaitInit"
    /\ engineInitFailed' = engineInitFailed + 1
    /\ OnExportFailure(i, "initFailed")
    /\ UNCHANGED <<isInitialized, engineInitCalls, pc, on, callsMade>>
    /\ UNCHANGED <<infoFiles, badSources, assets, xerror>>

\* a variant whose bundler is given the downloaded Map itself and keeps its
\* output in it
FilesAfterBundle_OutputStored(M, entry) == MapSet(M, entry, <<"bundled">>)
\* the downloaded Map after a bundle call of a callback: the bundler is given
\* a copy (tempFiles) and its plugin only calls files.has and files.get
FilesAfterBundle(M, entry) == M

\* esbuild.build settled for file i, whose tempFiles are a copy of the Map:
\* bundle throws, or returns the code, which goes to minifyCode
ExportBuildSettles(i, this) ==
    /\ UNCHANGED <<outsideExport, engineVars, requestVars>>
    /\ packageFiles' = FilesAfterBundle(packageFiles, exportFiles[i].path)
    /\ UNCHANGED <<dpc, tree, files, fetchState, fetched>>
    /\ xpc = "batch"
    /\ task[i] = "build"
    /\ IF BuildOutcome(exportFiles[i].path, packageFiles, this,
                       exportFiles[i].path \in badSources) = "built"
       THEN task' = [task EXCEPT ![i] = "minifyCode"] /\ UNCHANGED xpc
       ELSE OnExportFailure(i, "buildFailed")
    /\ UNCHANGED <<infoFiles, badSources, assets, xerror>>

\* the callback of file i has returned null
ReturnedNull(i) == task[i] \in {"skipped", "initFailed", "buildFailed", "minifyFailed"}

\* exportSizes.filter(Boolean): the assets of the callbacks that returned
\* one, in the order of the export files
FilterBoolean ==
    LET Kept(i) == task[i] = "asset"
        acc[i \in 0..Len(task)] ==
            IF i = 0 THEN <<>>
            ELSE IF Kept(i)
                 THEN Append(acc[i - 1], [path |-> exportFiles[i].path,
                                          exportName |-> exportFiles[i].path])
                 ELSE acc[i - 1]
    IN  acc[Len(task)]

\* every callback has returned: Promise.all resolves and the result is built
ExportReturns ==
    /\ UNCHANGED <<outsideExport, engineVars, downloadVars, requestVars>>
    /\ xpc = "batch"
    /\ \A i \in 1..Len(task) : ReturnedNull(i) \/ task[i] = "asset"
    /\ assets' = FilterBoolean
    /\ xpc' = "returned"
    /\ UNCHANGED <<infoFiles, badSources, task, xerror>>

(***************************************************************************)
(* WasmBundler.minifyCode and calculateGzipSize. A code is the sequence of *)
(* its characters.                                                         *)
(***************************************************************************)
\* the longest code of the model
MaxCode == 2
\* the characters of the model: one of one byte and one of two in UTF-8
Chars == {"a", "é"}
\* the longest code of one repeated character
LongCode == 45
Codes == UNION {[1..n -> Chars] : n \in 0..MaxCode}
             \cup {[i \in 1..n |-> "a"] : n \in 0..LongCode}

\* new TextEncoder().encode(s).length
RECURSIVE ByteLength(_)
ByteLength(s) ==
    IF s = <<>> THEN 0
    ELSE (IF Head(s) = "é" THEN 2 ELSE 1) + ByteLength(Tail(s))

\* Numbers in binary: the sequence of the bits, lowest first.
\* the value of a (short) bit sequence
RECURSIVE ValueOf(_)
ValueOf(bits) == IF bits = <<>> THEN 0 ELSE Head(bits) + 2 * ValueOf(Tail(bits))

\* bits * n + carry
RECURSIVE TimesBits(_, _, _)
TimesBits(bits, n, carry) ==
    IF bits = <<>>
    THEN IF carry = 0 THEN <<>>
         ELSE <<carry % 2>> \o TimesBits(<<>>, n, carry \div 2)
    ELSE LET t == Head(bits) * n + carry
         IN  <<t % 2>> \o TimesBits(Tail(bits), n, t \div 2)

\* the bits of the significand of a double
SignificandBits == 53

\* the literal 0.7 is the double 0x3FE6666666666666: its significand is 1
\* followed by thirteen times 0110, its value the significand * 2^-53
RECURSIVE Repeated(_, _)
Repeated(s, times) == IF times = 0 THEN <<>> ELSE s \o Repeated(s, times - 1)
PointSeven == Repeated(<<0, 1, 1, 0>>, 13) \o <<1>>

\* the double nearest to an exact product (ties to the even significand):
\* its significand and the bits that were shifted out
RoundToDouble(bits) ==
    IF Len(bits) <= SignificandBits THEN [sig |-> bits, shift |-> 0]
    ELSE LET s == Len(bits) - SignificandBits
             q == SubSeq(bits, s + 1, Len(bits))
             up == /\ bits[s] = 1
                   /\ (q[1] = 1 \/ \E i \in 1..(s - 1) : bits[i] = 1)
         IN  [sig |-> IF up THEN TimesBits(q, 1, 1) ELSE q, shift |-> s]

\* n * 0.7 in double arithmetic (n itself is exact)
TimesPointSeven(n) == RoundToDouble(TimesBits(PointSeven, n, 0))

\* Math.round(x) of a double x = sig * 2^(shift - 53) that is not negative:
\* floor(x + 0.5), the integer part plus the first bit after the point
MathRound(x) ==
    LET t == SignificandBits - x.shift
    IN  IF Len(x.sig) < t THEN 0
        ELSE ValueOf(SubSeq(x.sig, t + 1, Len(x.sig))) + x.sig[t]

\* Math.round(n * 0.7)
GzipEstimate_Exact(n) == (7 * n + 5) \div 10
GzipEstimate(n) == MathRound(TimesPointSeven(n))

\* what the gzip stream may produce for a content: its header and trailer
\* and the deflated bytes, at most a few more than the content has
StreamLengths(content) == {18 + n : n \in 2..(ByteLength(content) + 5)}

\* the minifier argument with its default
Minifiers == {Undefined, "esbuild", "terser"}

\* the minifier raised
Raised == <<"raised">>

\* what result.code may be: a string for esbuild.transform (the code as it
\* is, a shorter one, the empty one), a string or undefined for terser
MinifierOutputs(c, which) ==
    {c, <<>>} \cup {SubSeq(c, 1, n) : n \in 0..Len(c)}
        \cup (IF which = "terser" THEN {Null} ELSE {})

MinifyInit ==
    /\ npc = "ready"
    /\ code \in Codes
    /\ minifier \in Minifiers
    /\ hasCompressionStream \in BOOLEAN
    /\ yielded = Null
    /\ minified = Null

MinifyOff ==
    /\ npc = "ready"
    /\ code = <<>>
    /\ minifier = Undefined
    /\ hasCompressionStream = FALSE
    /\ yielded = Null
    /\ minified = Null

\* minifyCode is called: await esbuild.transform(code, ...) when minifier is
\* 'esbuild', await minify(code, ...) of terser otherwise
MinifyCodeCall ==
    /\ UNCHANGED outsideMinify
    /\ npc = "ready"
    /\ npc' = "minifying"
    /\ UNCHANGED <<code, minifier, hasCompressionStream, yielded, minified>>

\* minifiedCode = result.code for esbuild, result.code || code for terser
minifiedCode(out, which) ==
    IF which = "esbuild" THEN out
    ELSE IF out # Null /\ out # <<>> THEN out ELSE code

\* the minifier resolved with result.code = out; the size is taken,
\* calculateGzipSize is awaited (it gives gz) and the three are returned
MinifierResolves(out) ==
    /\ UNCHANGED outsideMinify
    /\ npc = "minifying"
    /\ LET which == OrDefault(minifier, "esbuild")
           mc == minifiedCode(out, which)
       IN  /\ out \in MinifierOutputs(code, which)
           /\ \E gz \in IF hasCompressionStream THEN StreamLengths(mc)
                         ELSE {GzipEstimate(ByteLength(mc))} :
                  minified' = [code |-> mc, size |-> ByteLength(mc), gzipSize |-> gz]
    /\ yielded' = out
    /\ npc' = "returned"
    /\ UNCHANGED <<code, minifier, hasCompressionStream>>

\* the minifier rejected: nothing catches it
MinifierRejects ==
    /\ UNCHANGED outsideMinify
    /\ npc = "minifying"
    /\ yielded' = Raised
    /\ npc' = "thrown"
    /\ UNCHANGED <<code, minifier, hasCompressionStream, minified>>

(***************************************************************************)
(* CDNPackageManager.getPackageInfo, with getFileList and                  *)
(* discoverCommonFiles. One call on a manager whose provider was chosen at *)
(* construction; the registry answers each fetch.                          *)
(***************************************************************************)
\* the keys of cdnProviders
Providers == {"unpkg", "jsDelivr", "skypack", "esm.sh"}

\* the registries of the model: which common files are served, and for
\* which of them the HEAD request fails in transport
ServedSets ==
    { {}, {PackageJson, IndexJs}, {PackageJson, DistIndexJs, ReadmeMd} }
UnreachableSets ==
    { {}, {IndexJs}, {commonFiles[i] : i \in 1..Len(commonFiles)} }

InfoInit ==
    /\ ipc = "idle"
    /\ defaultCDN \in Providers
    /\ served \in ServedSets
    /\ unreachable \in UnreachableSets
    /\ manifestFetch = "none"
    /\ listingFetch = "none"
    /\ probe = <<>>
    /\ existingFiles = <<>>
    /\ listed = Null
    /\ ierror = <<>>

\* no getPackageInfo call is modelled
InfoOff ==
    /\ ipc = "idle"
    /\ defaultCDN = "unpkg"
    /\ served = {}
    /\ unreachable = {}
    /\ manifestFetch = "none"
    /\ listingFetch = "none"
    /\ probe = <<>>
    /\ existingFiles = <<>>
    /\ listed = Null
    /\ ierror = <<>>

\* getPackageInfo up to `await fetch(packageJsonUrl)`
GetPackageInfoCall ==
    /\ ipc = "idle"
    /\ ipc' = "manifest"
    /\ UNCHANGED <<defaultCDN, served, unreachable, manifestFetch, listingFetch,
                   probe, existingFiles, listed, ierror>>
    /\ UNCHANGED <<requestVars, outsideInfo>>

\* getPackageInfo's catch: the call throws the wrapped error
InfoThrows(cause) ==
    /\ ipc' = "thrown"
    /\ ierror' = PackageInfoError(packageSpec(packageName, version), cause)
    /\ UNCHANGED <<listingFetch, probe, existingFiles, listed>>

\* if (!response.ok) throw new Error(`Package not found: ...`)
ResponseRefused_Never(ok) == FALSE
ResponseRefused(ok) == ~ok

\* the manifest fetch resolves with a response
ManifestResponds(ok) ==
    /\ ipc = "manifest"
    /\ IF ResponseRefused(ok)
       THEN /\ manifestFetch' = "notOk"
            /\ InfoThrows("notOk")
       ELSE /\ manifestFetch' = IF ok THEN "ok" ELSE "notOk"
            /\ ipc' = "body"
            /\ UNCHANGED <<listingFetch, probe, existingFiles, listed, ierror>>
    /\ UNCHANGED <<defaultCDN, served, unreachable>>
    /\ UNCHANGED <<requestVars, outsideInfo>>

\* the manifest fetch rejects: no response at all
ManifestRejects ==
    /\ ipc = "manifest"
    /\ manifestFetch' = "transport"
    /\ InfoThrows("transport")
    /\ UNCHANGED <<defaultCDN, served, unreachable>>
    /\ UNCHANGED <<requestVars, outsideInfo>>

\* discoverCommonFiles up to `await Promise.allSettled(checkPromises)`:
\* every probe is at its `await fetch(url, { method: 'HEAD' })`
ProbesStarted ==
    /\ ipc' = "probing"
    /\ probe' = [i \in 1..Len(commonFiles) |-> "pending"]
    /\ existingFiles' = <<>>
    /\ UNCHANGED <<listed, ierror>>

\* getFileList's catch: console.warn, then discoverCommonFiles
OnListingFailure == ProbesStarted

\* `await response.json()` resolves; getFileList runs up to its first await
ManifestBodyParsed ==
    /\ ipc = "body"
    /\ IF defaultCDN = "unpkg"
       THEN /\ ipc' = "meta"
            /\ UNCHANGED <<probe, existingFiles, listed, ierror>>
       ELSE ProbesStarted
    /\ UNCHANGED <<defaultCDN, served, unreachable, manifestFetch, listingFetch>>
    /\ UNCHANGED <<requestVars, outsideInfo>>

\* `await response.json()` rejects: the body is no manifest
ManifestBodyRejects ==
    /\ ipc = "body"
    /\ manifestFetch' = "body"
    /\ InfoThrows("body")
    /\ UNCHANGED <<defaultCDN, served, unreachable>>
    /\ UNCHANGED <<requestVars, outsideInfo>>

\* the ?meta fetch resolves with a response
ListingResponds(ok) ==
    /\ ipc = "meta"
    /\ listingFetch' = IF ok THEN "ok" ELSE "notOk"
    /\ IF ok
       THEN /\ ipc' = "metaBody"
            /\ UNCHANGED <<probe, existingFiles, listed, ierror>>
       ELSE ProbesStarted
    /\ UNCHANGED <<defaultCDN, served, unreachable, manifestFetch>>
    /\ UNCHANGED <<requestVars, outsideInfo>>

\* the ?meta fetch rejects
ListingRejects ==
    /\ ipc = "meta"
    /\ listingFetch' = "transport"
    /\ OnListingFailure
    /\ UNCHANGED <<defaultCDN, served, unreachable, manifestFetch>>
    /\ UNCHANGED <<requestVars, outsideInfo>>

\* the ?meta body is parsed and traversed: getPackageInfo returns
ListingBodyParsed(data) ==
    /\ ipc = "metaBody"
    /\ listed' = parseUnpkgListing(data)
    /\ ipc' = "returned"
    /\ UNCHANGED <<defaultCDN, served, unreachable, manifestFetch, listingFetch,
                   probe, existingFiles, ierror>>
    /\ UNCHANGED <<requestVars, outsideInfo>>

\* response.json() rejects, or parseUnpkgListing throws on a body that is
\* no object
ListingBodyRejects ==
    /\ ipc = "metaBody"
    /\ listingFetch' = "body"
    /\ OnListingFailure
    /\ UNCHANGED <<defaultCDN, served, unreachable, manifestFetch>>
    /\ UNCHANGED <<requestVars, outsideInfo>>

\* how the HEAD request for a common file ends
ProbeOutcome(path) ==
    IF path \in unreachable THEN "rejected"
    ELSE IF path \in served THEN "ok"
    ELSE "notOk"

\* one probe's fetch settles and its callback runs to its end
ProbeSettles(i) ==
    /\ ipc = "probing"
    /\ probe[i] = "pending"
    /\ probe' = [probe EXCEPT ![i] = ProbeOutcome(commonFiles[i])]
    /\ existingFiles' =
           IF ProbeOutcome(commonFiles[i]) = "ok"
           THEN Append(existingFiles,
                       [path |-> commonFiles[i],
                        size |-> ParsedLength(ContentLength(commonFiles[i])),
                        type |-> "file"])
           ELSE existingFiles
    /\ UNCHANGED <<ipc, defaultCDN, served, unreachable, manifestFetch,
                   listingFetch, listed, ierror>>
    /\ UNCHANGED <<requestVars, outsideInfo>>

\* a variant that goes on with the first probe to settle (Promise.race)
ProbesSettled_First == \E i \in 1..Len(commonFiles) : probe[i] # "pending"
\* await Promise.allSettled(checkPromises)
ProbesSettled == \A i \in 1..Len(commonFiles) : probe[i] # "pending"

\* Promise.allSettled resolves: discoverCommonFiles, getFileList and
\* getPackageInfo return
DiscoverReturns ==
    /\ ipc = "probing"
    /\ ProbesSettled
    /\ listed' = existingFiles
    /\ ipc' = "returned"
    /\ UNCHANGED <<defaultCDN, served, unreachable, manifestFetch, listingFetch,
                   probe, existingFiles, ierror>>
    /\ UNCHANGED <<requestVars, outsideInfo>>

(***************************************************************************)
(* Specifications.                                                         *)
(***************************************************************************)
\* concurrent calls into the bundlers
EngineNext ==
    \/ \E t \in Tasks, b \in Bundlers : AnalyzePackageCall(t, b)
    \/ \E t \in Tasks, b \in Bundlers : BundleCall(t, b)
    \/ \E t \in Tasks : EsbuildInitializeResolves(t)
    \/ \E t \in Tasks : EsbuildInitializeRejects(t)
    \/ \E t \in Tasks : CallCompletes(t)
    \/ \E b \in Bundlers : BundlerDispose(b)

InitEngine == ManagerOff /\ EngineInit /\ SandboxOff /\ DownloadOff /\ ResolveOff /\ MainOff
           /\ RequestOff /\ CdnOff /\ ExportOff /\ MinifyOff /\ InfoOff

SpecEngine == InitEngine /\ [][EngineNext]_vars

\* the same calls, one at a time: a call starts only when none is in flight
EngineSeqNext ==
    \/ \E t \in Tasks, b \in Bundlers : Quiescent /\ AnalyzePackageCall(t, b)
    \/ \E t \in Tasks, b \in Bundlers : Quiescent /\ BundleCall(t, b)
    \/ \E t \in Tasks : EsbuildInitializeResolves(t)
    \/ \E t \in Tasks : EsbuildInitializeRejects(t)
    \/ \E t \in Tasks : CallCompletes(t)
    \/ \E b \in Bundlers : Quiescent /\ BundlerDispose(b)

SpecEngineSeq == InitEngine /\ [][EngineSeqNext]_vars

SandboxNext ==
    \/ AnalyzePackageStart
    \/ AnalyzeBundlerReady
    \/ AnalyzeBundlerFails
    \/ BootResolves
    \/ BootRejects
    \/ SandboxStepOk
    \/ \E packageJson \in InstalledManifests : ManifestParsed(packageJson)
    \/ SandboxStepFails
    \/ SandboxTeardownReturns
    \/ CdnStrategyEnds
    \/ AnalyzerDispose

InitSandbox == ManagerOff /\ EngineInit /\ SandboxInit /\ DownloadOff /\ ResolveOff /\ MainOff
            /\ RequestOff /\ CdnOff /\ ExportOff /\ MinifyOff /\ InfoOff

SpecSandbox == InitSandbox /\ [][SandboxNext]_vars

DownloadNext ==
    \/ DownloadPackageCall
    \/ ManifestFetched
    \/ ManifestFails
    \/ \E i \in 1..Len(files), c \in Contents : FetchResolves(i, c)
    \/ \E i \in 1..Len(files) : FetchRejects(i)
    \/ DownloadReturns

InitDownload == ManagerOff /\ EngineInit /\ SandboxOff /\ ResolveOff /\ MainOff
             /\ dpc = "idle" /\ tree \in ListingTrees /\ files = <<>>
             /\ packageFiles = EmptyMap /\ fetchState = <<>> /\ fetched = <<>>
             /\ RequestOff /\ CdnOff /\ ExportOff /\ MinifyOff /\ InfoOff

SpecDownload == InitDownload /\ [][DownloadNext]_vars

ResolveNext ==
    \/ ResolveImportCall
    \/ \E this \in ThisBindings : OnResolveCall(this)

InitResolve == ManagerOff /\ EngineInit /\ SandboxOff /\ DownloadOff /\ ResolveInit /\ MainOff
            /\ RequestOff /\ CdnOff /\ ExportOff /\ MinifyOff /\ InfoOff

SpecResolve == InitResolve /\ [][ResolveNext]_vars

MainNext ==
    \/ ResolveMainFileCall
    \/ ContentFetchOk
    \/ ContentFetchFails

InitMain == ManagerOff /\ EngineInit /\ SandboxOff /\ DownloadOff /\ ResolveOff /\ MainInit
         /\ RequestOff /\ CdnOff /\ ExportOff /\ MinifyOff /\ InfoOff

SpecMain == InitMain /\ [][MainNext]_vars

CdnNext ==
    \/ CdnAnalyzePackageCall
    \/ CdnBundlerFails
    \/ CdnBundlerReady
    \/ \E cause \in ManifestFailures : CdnGetPackageInfoThrows(cause)
    \/ CdnGetPackageInfoReturns
    \/ CdnDownloadPackageCall
    \/ ManifestFetched
    \/ ManifestFails
    \/ \E i \in 1..Len(files), c \in Contents : FetchResolves(i, c)
    \/ \E i \in 1..Len(files) : FetchRejects(i)
    \/ DownloadReturns
    \/ \E cause \in ManifestFailures : CdnDownloadThrows(cause)
    \/ CdnDownloadReturns
    \/ CdnResolveMainFileCall
    \/ ContentFetchOk
    \/ ContentFetchFails
    \/ CdnBundleCall
    \/ \E this \in ThisBindings, engineErrors \in BOOLEAN :
           CdnBuildSettles(this, engineErrors)

InitCdn == ManagerOff /\ EngineInit /\ SandboxOff /\ DownloadInit /\ ResolveOff /\ MainInit
        /\ CdnInputs /\ RequestInit /\ CdnInit /\ ExportOff /\ MinifyOff /\ InfoOff

SpecCdn == InitCdn /\ [][CdnNext]_vars

ExportNext ==
    \/ GetPackageExportSizesCall
    \/ \E cause \in ManifestFailures : ExportGetPackageInfoThrows(cause)
    \/ \E list \in FileLists(tree) : ExportGetPackageInfoReturns(list)
    \/ ExportDownloadPackageCall
    \/ ManifestFetched
    \/ ManifestFails
    \/ \E i \in 1..Len(files), c \in Contents : FetchResolves(i, c)
    \/ \E i \in 1..Len(files) : FetchRejects(i)
    \/ DownloadReturns
    \/ \E cause \in ManifestFailures : ExportDownloadThrows(cause)
    \/ ExportBatchStarts
    \/ \E i \in 1..Len(task) : ExportInitResolves(i)
    \/ \E i \in 1..Len(task) : ExportInitRejects(i)
    \/ \E i \in 1..Len(task), this \in ThisBindings : ExportBuildSettles(i, this)
    \/ ExportReturns

InitExport == ManagerOff /\ EngineInit /\ SandboxOff /\ ExportDownloadInit /\ ResolveOff /\ MainOff
           /\ RequestInit /\ customImports = Null /\ CdnOff /\ ExportInit
           /\ MinifyOff /\ InfoOff

SpecExport == InitExport /\ [][ExportNext]_vars

\* the outputs the steps of minifyCode are tried with
MinifyOutputs == Codes \cup {Null}

MinifyNext ==
    \/ MinifyCodeCall
    \/ \E out \in MinifyOutputs : MinifierResolves(out)
    \/ MinifierRejects

InitMinify == ManagerOff /\ EngineInit /\ SandboxOff /\ DownloadOff /\ ResolveOff /\ MainOff
           /\ RequestOff /\ CdnOff /\ ExportOff /\ MinifyInit /\ InfoOff

SpecMinify == InitMinify /\ [][MinifyNext]_vars

\* one getPackageInfo call
InfoNext ==
    \/ GetPackageInfoCall
    \/ \E ok \in BOOLEAN : ManifestResponds(ok)
    \/ ManifestRejects
    \/ ManifestBodyParsed
    \/ ManifestBodyRejects
    \/ \E ok \in BOOLEAN : ListingResponds(ok)
    \/ ListingRejects
    \/ \E data \in Trees : ListingBodyParsed(data)
    \/ ListingBodyRejects
    \/ \E i \in 1..Len(commonFiles) : ProbeSettles(i)
    \/ DiscoverReturns

InitInfo == ManagerOff /\ EngineInit /\ SandboxOff /\ DownloadOff /\ ResolveOff /\ MainOff
         /\ RequestInit /\ customImports = Null /\ CdnOff /\ ExportOff
         /\ MinifyOff /\ InfoInit

SpecInfo == InitInfo /\ [][InfoNext]_vars

\* any interleaving of initialize and teardown calls of two tasks on one
\* WebContainerManager
ManagerNext ==
    \/ \E t \in Tasks : InitializeCall(t)
    \/ \E t \in Tasks : InitializeBootResolves(t)
    \/ \E t \in Tasks : InitializeBootRejects(t)
    \/ \E t \in Tasks : TeardownCall(t)
    \/ \E t \in Tasks : TeardownResumes(t)

InitManager == ManagerOff /\ EngineInit /\ SandboxOff /\ DownloadOff /\ ResolveOff
            /\ MainOff /\ RequestOff /\ CdnOff /\ ExportOff /\ MinifyOff /\ InfoOff

SpecManager == InitManager /\ [][ManagerNext]_vars

(***************************************************************************)
(* Claims.                                                                 *)
(***************************************************************************)

\* C1: callers that start on the same WasmBundler before its initialization
\* has completed share one initialization: at no time are two invocations of
\* esbuild.initialize in flight for one bundler.
C1_SingleInitInFlight ==
    \A b \in Bundlers :
        Cardinality({t \in Tasks : pc[t] = "awaitInit" /\ on[t] = b}) <= 1

\* C2: over a sequential sequence of analyzePackage / bundle / dispose calls
\* on one or several bundlers the engine's initialize is invoked at most
\* once in the process (an invocation that rejected is not counted, so a
\* retry after a failed initialization is not held against the claim).
C2_EngineInitAtMostOnce == engineInitCalls - engineInitFailed <= 1

\* C3: when analyzePackage has returned or thrown after acquiring the sandbox
\* handle, the handle has been torn down: none is held and no booted sandbox
\* remains.
C3_HandleReleasedOnExit ==
    (spc \in {"returned", "thrown"} /\ acquired) => (webcontainer = 0 /\ live = {})

\* ---- downloadPackage ----
\* indices of the listing's entries of kind file
FileKindEntries == {i \in 1..Len(files) : files[i].type = "file"}
\* those whose fetch has succeeded / failed
Succeeded == {i \in FileKindEntries : fetchState[i] = "ok"}
Failed == {i \in FileKindEntries : fetchState[i] = "failed"}

\* C4: at every point during and after downloadPackage every key of the file
\* set is the path of a kind=file entry of the listing whose fetch succeeded,
\* and maps to exactly the content that fetch returned.
C4_KeysAreListedFilesWithFetchedContent ==
    \A k \in DOMAIN packageFiles :
        \E i \in FileKindEntries :
            /\ files[i].path = k
            /\ fetchState[i] = "ok"
            /\ packageFiles[k] = fetched[i]

\* C4's case: a download that returned, with two files stored and one failed
C4_Witness ==
    /\ dpc = "returned"
    /\ Cardinality(DOMAIN packageFiles) >= 2
    /\ Failed # {}
    /\ \E k \in DOMAIN packageFiles : packageFiles[k] # <<>>

\* C5: once the manifest fetch has succeeded downloadPackage does not throw,
\* and when it has returned with k of the N file fetches failed the set has
\* exactly N-k entries, the files whose fetch succeeded.
C5_PartialFailureTolerated ==
    /\ dpc = "thrown" => fetchState = <<>>
    /\ dpc = "returned" =>
          /\ DOMAIN packageFiles = {files[i].path : i \in Succeeded}
          /\ Cardinality(DOMAIN packageFiles) =
                 Cardinality(FileKindEntries) - Cardinality(Failed)

\* C5's case: exactly one of N >= 2 fetches failed and the call returned
C5_Witness ==
    /\ dpc = "returned"
    /\ Cardinality(Failed) = 1
    /\ Cardinality(FileKindEntries) >= 2
    /\ Cardinality(DOMAIN packageFiles) = Cardinality(FileKindEntries) - 1

\* C6: downloadPackage returns only after every fetch has completed, and
\* when all of them succeeded the keys of the result are exactly the paths
\* of the listing's kind=file entries.
C6_JoinWaitsForAll ==
    dpc = "returned" =>
        /\ \A i \in 1..Len(fetchState) : fetchState[i] # "pending"
        /\ (Failed = {}) =>
               DOMAIN packageFiles = {files[i].path : i \in FileKindEntries}

\* C6's case: three fetches, all succeeded, the call returned
C6_Witness ==
    /\ dpc = "returned"
    /\ Cardinality(FileKindEntries) >= 3
    /\ Succeeded = FileKindEntries

\* ---- resolution ----
\* C7: the resolution hook completes without raising for every specifier
\* and importer; a specifier it cannot resolve is left unresolved.
C7_HookNeverRaises == rpc = "hooked" => result # TypeError

\* the directory of a path: what precedes its last '/'
DirName(p) ==
    IF \E i \in 1..Len(p) : p[i] = "/"
    THEN LET last == CHOOSE i \in 1..Len(p) :
                         p[i] = "/" /\ \A j \in (i + 1)..Len(p) : p[j] # "/"
         IN  SubSeq(p, 1, last - 1)
    ELSE <<>>

\* normalization as the specification words it, read from the end of the
\* path: a '..' cancels the nearest name before it, if there is one, '.'
\* and empty segments are dropped
RECURSIVE Kept(_, _)
Kept(segs, skip) ==
    IF segs = <<>> THEN <<>>
    ELSE LET last == segs[Len(segs)]
             init == SubSeq(segs, 1, Len(segs) - 1)
         IN  IF last = <<".", ".">> THEN Kept(init, skip + 1)
             ELSE IF last = <<".">> \/ last = <<>> THEN Kept(init, skip)
             ELSE IF skip > 0 THEN Kept(init, skip - 1)
             ELSE Append(Kept(init, 0), last)

NormalizedJoin(dir, s) == Join(Kept(Split(dir \o <<"/">> \o s), 0))

\* the suffix order the specification fixes
ClaimedSuffixes ==
    << <<>>, <<".", "js">>, <<".", "mjs">>, <<".", "ts">>,
       <<"/", "index", ".", "js">>, <<"/", "index", ".", "mjs">>,
       <<"/", "index", ".", "ts">> >>

\* the suffixes under which the candidate of the current inputs is a key
SuffixHits ==
    {i \in 1..Len(ClaimedSuffixes) :
        (NormalizedJoin(DirName(importer), importPath) \o ClaimedSuffixes[i]) \in vfiles}

\* C8: for a relative specifier resolveImport returns the normalized join of
\* dirname(importer) and the specifier, extended by the first suffix of
\* '', '.js', '.mjs', '.ts', '/index.js', '/index.mjs', '/index.ts' that
\* makes it a key of the file set, and none when no suffix does.
C8_RelativeSuffixOrder ==
    (/\ rpc = "resolved"
     /\ (StartsWith(importPath, <<".", "/">>) \/ StartsWith(importPath, <<".", ".", "/">>)))
    => IF SuffixHits = {}
       THEN result = Null
       ELSE LET first == CHOOSE i \in SuffixHits : \A j \in SuffixHits : i <= j
            IN  result = NormalizedJoin(DirName(importer), importPath)
                             \o ClaimedSuffixes[first]

\* C8's case: '../...' imported from a file in lib, with two suffixes that
\* match, the later of them not chosen
C8_Witness ==
    /\ rpc = "resolved"
    /\ StartsWith(importPath, <<".", ".", "/">>)
    /\ importer = <<"lib", "/", "b", ".", "js">>
    /\ Cardinality(SuffixHits) = 2
    /\ result \in vfiles

\* C9: the hook returns a specifier that is verbatim a key of the file set
\* unchanged, whatever the importer, and a path that a resolution produced
\* resolves to itself again.
C9_VerbatimKeyIdempotent ==
    /\ (rpc = "hooked" /\ importPath \in vfiles) => result = importPath
    /\ (rpc \in {"hooked", "resolved"} /\ result # Null /\ result # TypeError) =>
           \A p \in Importers : \A this \in ThisBindings :
               onResolve(result, p, vfiles, this) = result

\* C9's case: a specifier that is a key, imported from a file in lib
C9_Witness ==
    /\ rpc = "hooked"
    /\ importPath \in vfiles
    /\ importer = <<"lib", "/", "b", ".", "js">>
    /\ result = importPath

\* ---- resolveMainFile ----
\* the candidate order the specification fixes, absent fields skipped
ClaimedCandidates ==
    LET Present(e) == e # <<>>
    IN  SelectSeq(<<moduleField, mainField, <<"index", ".", "js">>,
                    <<"index", ".", "mjs">>, <<"dist", "/", "index", ".", "js">>,
                    <<"lib", "/", "index", ".", "js">> >>, Present)

\* C10: resolveMainFile tries module, main, 'index.js', 'index.mjs',
\* 'dist/index.js', 'lib/index.js' in that order and returns the first whose
\* content fetch succeeds, none if all fail; with module 'esm/index.js' and
\* main 'index.js' it returns 'esm/index.js' when that fetch succeeds and
\* 'index.js' when the file is not served and the fetch of main succeeds.
C10_FirstAvailableCandidate ==
    mpc = "done" =>
        LET n == Len(outcomes)
        IN  /\ n <= Len(ClaimedCandidates)
            /\ \A j \in 1..(n - 1) : ~outcomes[j]
            /\ IF outcomes[n]
               THEN mainResult = ClaimedCandidates[n] /\ mainResult \in remote
               ELSE mainResult = Null /\ n = Len(ClaimedCandidates)
            /\ (moduleField = <<"esm", "/", "index", ".", "js">>
                  /\ mainField = <<"index", ".", "js">>) =>
                   /\ outcomes[1] => mainResult = <<"esm", "/", "index", ".", "js">>
                   /\ (<<"esm", "/", "index", ".", "js">> \notin remote
                         /\ n >= 2 /\ outcomes[2]) =>
                          mainResult = <<"index", ".", "js">>

\* C10's case: module 'esm/index.js' is not served, main 'index.js' is
C10_Witness ==
    /\ mpc = "done"
    /\ moduleField = <<"esm", "/", "index", ".", "js">>
    /\ mainField = <<"index", ".", "js">>
    /\ <<"esm", "/", "index", ".", "js">> \notin remote
    /\ outcomes = <<FALSE, TRUE>>
    /\ mainResult = <<"index", ".", "js">>

\* ---- analyzePackage with the CDN strategy ----
\* C11: in the CDN strategy the entry path handed to the bundler is always a
\* key of the file set handed to it: when the set holds no file at the
\* expected entry path an entry file is synthesized and that file is the
\* entry that is bundled.
C11_EntryIsKeyOfFileSet ==
    (cpc \in {"bundle", "minifyCode", "thrown"} /\ entryPoint # Null)
        => entryPoint \in DOMAIN packageFiles

\* C12: when resolveMainFile returns none the analysis fails; it does not go
\* on to bundling with a guessed entry path.
C12_NoBundleWithoutEntry ==
    (mpc = "done" /\ mainResult = Null)
        => (entryPoint = Null /\ cpc \in {"resolveMainFile", "thrown"})

\* ---- getPackageExportSizes ----
\* the export files whose bundle and minify meet no failure: they have
\* content, the engine was initialized for them and finds no errors in
\* their sources
Sound(i) ==
    /\ ContentOf(exportFiles[i].path) # <<>>
    /\ task[i] # "initFailed"
    /\ exportFiles[i].path \notin badSources

\* C13: a bundle or minify failure for one export file never aborts the
\* batch: the call completes, and the result holds exactly one asset for
\* every other file, whose bundle and minify succeed (of three files of
\* which the second fails, the first and the third).
C13_FailureDropsOnlyItsFile ==
    /\ xpc = "thrown" => task = <<>>
    /\ xpc = "returned" =>
          /\ \A i \in 1..Len(exportFiles) :
                 Sound(i) => Cardinality({k \in 1..Len(assets) :
                                 assets[k].path = exportFiles[i].path}) = 1
          /\ \A k \in 1..Len(assets) :
                 \E i \in 1..Len(exportFiles) :
                     Sound(i) /\ assets[k].path = exportFiles[i].path

\* ---- minifyCode ----
\* C14: a failure of the selected minifier, 'esbuild' or 'terser', never
\* fails minifyCode: it returns the unminified code and its size.
C14_MinifierFailureDegrades ==
    yielded = Raised =>
        /\ npc = "returned"
        /\ minified.code = code
        /\ minified.size = ByteLength(code)

\* C15: for both strategies, when the minifier yields no output (empty or
\* missing code) for a non-empty input, minifyCode returns the original
\* code unmodified and the size of the original.
C15_NoOutputKeepsOriginal ==
    (npc = "returned" /\ code # <<>> /\ yielded \in {<<>>, Null}) =>
        /\ minified.code = code
        /\ minified.size = ByteLength(code)

\* ---- analyzePackage: the strategy, the sandbox ----
\* C16: analyzePackage takes the sandbox strategy if and only if
\* useWebContainer was requested and isSupported() returns true, and the CDN
\* strategy in every other case; the capability is queried before any boot,
\* so that no sandbox is booted on an analysis with the CDN strategy.
C16_SandboxIffRequestedAndSupported ==
    /\ strategy # "none" =>
           (strategy = "sandbox" <=> (useWebContainer /\ supported))
    /\ strategy # "none" =>
           (strategy = "cdn" <=> ~(useWebContainer /\ supported))
    /\ spc \in {"boot", "createPackageJson", "installPackage", "readFile",
                "JSON.parse", "writeFile", "teardown"} => strategy = "sandbox"
    /\ spc = "cdn" => strategy = "cdn"
    /\ ~(useWebContainer /\ supported) => (booted = 0 /\ live = {} /\ ~acquired)

\* C16's case: the sandbox was requested, the capability is missing, and
\* the analysis has run to its end with the CDN strategy without a boot
C16_Witness ==
    /\ useWebContainer
    /\ ~supported
    /\ strategy = "cdn"
    /\ spc = "returned"
    /\ booted = 0

\* the call threw the SandboxUnsupported failure
SandboxUnsupportedThrown ==
    /\ spc = "thrown"
    /\ \E i \in 1..Len(serror) :
           serror[i] = "WebContainer not supported in this environment"

\* C17: the SandboxUnsupported failure reaches the caller only when the
\* sandbox strategy was requested and the capability check failed: never
\* when the check passed, never on the CDN strategy.
C17_UnsupportedOnlyWhenCheckFailed ==
    SandboxUnsupportedThrown =>
        (useWebContainer /\ ~supported /\ strategy # "cdn")

\* C20: the sandbox strategy returns the placeholder figures, size 50000
\* and gzipSize 15000, in the stats and in their single asset, whatever the
\* package; dependencyCount is the number of keys of the installed
\* manifest's dependencies, peerDependencies the key list of its
\* peerDependencies, and the module-format flags are those of the manifest.
C20_PlaceholdersAndManifestFacts ==
    (spc = "returned" /\ strategy = "sandbox") =>
        /\ stats.size = 50000
        /\ stats.gzipSize = 15000
        /\ stats.assets = <<[name |-> "main", size |-> 50000,
                             gzipSize |-> 15000, type |-> "js"]>>
        /\ stats.dependencyCount =
               (IF installed.dependencies = Null THEN 0
                ELSE Cardinality({installed.dependencies[i] :
                                      i \in 1..Len(installed.dependencies)}))
        /\ stats.peerDependencies =
               (IF installed.peerDependencies = Null THEN <<>>
                ELSE installed.peerDependencies)
        /\ stats.hasJSNext = (installed.jsnextMain # <<>>)
        /\ stats.hasJSModule = (installed.module # <<>>)
        /\ stats.isModuleType = (installed.type = "module")
        /\ stats.hasSideEffects = (installed.sideEffects # "false")

\* C20's case: an analysis with the sandbox strategy has returned for a
\* package of two dependencies and one peer dependency
C20_Witness ==
    /\ spc = "returned"
    /\ strategy = "sandbox"
    /\ stats.dependencyCount = 2
    /\ stats.peerDependencies = <<"react">>
    /\ stats.isModuleType
    /\ ~stats.hasSideEffects

\* the pieces of a message
Pieces(message) == {message[i] : i \in 1..Len(message)}

\* C18: every error that reaches the caller of analyzePackage carries the
\* package name and the requested version of the request that produced it.
C18_ErrorsCarryNameAndVersion ==
    (cpc = "thrown" /\ version # Undefined) =>
        (packageName \in Pieces(error) /\ version \in Pieces(error))

\* the failure kinds of getPackageInfo, as its caller can tell them: by the
\* cause printed in the message of the Error it throws
PackageNotFound(message) == "Package not found: " \in Pieces(message)
RegistryUnreachable(message) == "Failed to fetch" \in Pieces(message)

HalfLost(n) ==
    /\ n % 10 = 5
    /\ LET k == (7 * n) \div 10
           e == CHOOSE x \in 0..30 : 2^x <= k /\ k < 2^(x + 1)
       IN  2 * n > 5 * 2^e

\* C21 (as stated): without a streaming compressor the compressed size is
\* floor((7n + 5) / 10) for the byte length n of the code.
C21_FallbackIsExactRound ==
    (npc = "returned" /\ ~hasCompressionStream) =>
        minified.gzipSize = (7 * ByteLength(minified.code) + 5) \div 10

\* C21 (amended): without a streaming compressor the compressed size is
\* Math.round of the double product n * 0.7: floor((7n + 5) / 10), except
\* that it is floor(7n / 10) where the product falls below the half.
C21_FallbackIsRoundedDoubleProduct ==
    (npc = "returned" /\ ~hasCompressionStream) =>
        LET n == ByteLength(minified.code)
        IN  minified.gzipSize =
                IF HalfLost(n) THEN (7 * n) \div 10 ELSE (7 * n + 5) \div 10

\* a code of 45 bytes was sized without a compressor
C21_Witness ==
    /\ npc = "returned"
    /\ ~hasCompressionStream
    /\ ByteLength(minified.code) = 45

\* the file nodes of a listing
RECURSIVE CountFileNodes(_)
CountFileNodes(obj) ==
    IF obj.type = "file" THEN 1
    ELSE LET entries == obj.files
             sum[i \in 0..Len(entries)] ==
                 IF i = 0 THEN 0 ELSE sum[i - 1] + CountFileNodes(entries[i].node)
         IN  sum[Len(entries)]

\* no node
NoNode == [type |-> "none", size |-> <<>>, files |-> <<>>]

\* the node met by following the names from obj
RECURSIVE NodeAt(_, _)
NodeAt(obj, names) ==
    IF names = <<>> THEN obj
    ELSE IF \E k \in 1..Len(obj.files) : obj.files[k].name = Head(names)
    THEN LET k == CHOOSE j \in 1..Len(obj.files) : obj.files[j].name = Head(names)
         IN  NodeAt(obj.files[k].node, Tail(names))
    ELSE NoNode

\* the positions, among the children, of the nodes on that way
RECURSIVE IndexPath(_, _)
IndexPath(obj, names) ==
    IF names = <<>> THEN <<>>
    ELSE LET k == CHOOSE j \in 1..Len(obj.files) : obj.files[j].name = Head(names)
         IN  <<k>> \o IndexPath(obj.files[k].node, Tail(names))

\* the names a path is joined from
NamesOf(path) == IF path = <<>> THEN <<>> ELSE Split(path)

\* p comes before q in depth-first order
Before(p, q) ==
    \E k \in 1..Len(p) :
        /\ k <= Len(q)
        /\ p[k] < q[k]
        /\ \A j \in 1..(k - 1) : p[j] = q[j]

\* C22: parseUnpkgListing returns exactly one entry per file node of the
\* tree, in depth-first order, with the names from the root joined by '/'
\* as its path (no leading slash) and the node's size, or 0, as its size;
\* directories give no entry.
C22_ListingIsFlattened ==
    dpc \in {"joining", "returned"} =>
        /\ Len(files) = CountFileNodes(tree)
        /\ \A i \in 1..Len(files) :
               LET node == NodeAt(tree, NamesOf(files[i].path))
               IN  /\ files[i].type = "file"
                   /\ node.type = "file"
                   /\ files[i].size = (IF node.size = <<>> THEN 0 ELSE node.size[1])
        /\ \A i, j \in 1..Len(files) :
               i < j => Before(IndexPath(tree, NamesOf(files[i].path)),
                               IndexPath(tree, NamesOf(files[j].path)))

\* the listing three deep was flattened into its three files
C22_Witness ==
    /\ dpc = "returned"
    /\ tree = DeepTree
    /\ Len(files) = 3
    /\ files[1].path = <<"src", "/", "util", "/", "a", ".", "js">>

\* the call got its file list by existence probing
ListedByProbing ==
    /\ ipc = "returned"
    /\ defaultCDN # "unpkg" \/ listingFetch \in {"notOk", "transport", "body"}

\* C23: without a listing endpoint, or when the listing request fails or is
\* not ok, the file list is what the probes found: all probes are awaited,
\* the list holds exactly the candidates the registry answered ok for, each
\* once, as a file with the content-length of the answer or 0, and a probe
\* that is refused or fails is dropped without failing the call.
C23_ProbingKeepsExactlyOkPaths ==
    /\ ListedByProbing =>
           /\ DOMAIN probe = 1..Len(commonFiles)
           /\ \A i \in DOMAIN probe : probe[i] # "pending"
           /\ {listed[k].path : k \in 1..Len(listed)}
                  = {commonFiles[i] : i \in 1..Len(commonFiles)}
                        \cap (served \ unreachable)
           /\ \A k, l \in 1..Len(listed) : listed[k].path = listed[l].path => k = l
           /\ \A k \in 1..Len(listed) :
                  /\ listed[k].type = "file"
                  /\ listed[k].size = (IF listed[k].path = IndexJs THEN 10
                                       ELSE IF listed[k].path = PackageJson THEN 0
                                       ELSE 7)
    /\ (ipc = "returned" /\ ~ListedByProbing) => probe = <<>>
    /\ probe # <<>> => ipc \in {"probing", "returned"}

\* a provider without a listing endpoint: one probe was refused, one failed
\* in transport and one found its file
C23_Witness ==
    /\ ListedByProbing
    /\ defaultCDN = "jsDelivr"
    /\ \E i \in DOMAIN probe : probe[i] = "rejected"
    /\ \E i \in DOMAIN probe : probe[i] = "notOk"
    /\ Len(listed) = 1

\* the places a bare specifier is looked for, as the claim lists them
ClaimedPackageSuffixes ==
    << <<>>, <<"/", "index", ".", "js">>, <<"/", "index", ".", "mjs">>,
       <<"/", "dist", "/", "index", ".", "js">>,
       <<"/", "lib", "/", "index", ".", "js">> >>
InNodeModules(s, i) == <<"node_modules", "/">> \o s \o ClaimedPackageSuffixes[i]
PackageHits ==
    {i \in 1..Len(ClaimedPackageSuffixes) : InNodeModules(importPath, i) \in vfiles}

\* C24: for a bare specifier s resolveImport returns the first key of the
\* file set among node_modules/s, node_modules/s/index.js,
\* node_modules/s/index.mjs, node_modules/s/dist/index.js and
\* node_modules/s/lib/index.js, and none when none is a key.
C24_BareSpecifierOrder ==
    (rpc = "resolved" /\ ~StartsWith(importPath, <<".">>)) =>
        IF PackageHits = {}
        THEN result = Null
        ELSE LET first == CHOOSE i \in PackageHits : \A j \in PackageHits : i <= j
             IN  result = InNodeModules(importPath, first)

\* C24's case: 'a' with both node_modules/a/index.js and
\* node_modules/a/dist/index.js in the file set
C24_Witness ==
    /\ rpc = "resolved"
    /\ importPath = <<"a">>
    /\ PackageHits = {2, 4}
    /\ result = InNodeModules(importPath, 2)

\* the segments of a normalized path: none for the empty path
SegmentsOf(path) == IF path = <<>> THEN <<>> ELSE Split(path)

C27_RequestsTargetOneSpec ==
    \A target \in RequestTargets : target = packageSpec(packageName, version)

\* C28: the file set used for bundling agrees with the descriptor the
\* orchestrator holds: every key of the downloaded Map is the path of an
\* entry of kind file of that descriptor's file list.
C28_KeysAreInHeldDescriptor ==
    xpc \in {"batch", "returned"} =>
        \A key \in DOMAIN packageFiles :
            \E i \in 1..Len(infoFiles) :
                infoFiles[i].path = key /\ infoFiles[i].type = "file"

\* the position of an asset's file among the export files
ExportPosition(asset) ==
    CHOOSE i \in 1..Len(exportFiles) : exportFiles[i].path = asset.path

\* C29: every listed script file that was downloaded, one with empty
\* content included, is attempted and gives exactly one asset unless its
\* bundle or its minification raises, and the assets are in the order of
\* the files in the descriptor's listing.
C29_DownloadedScriptsYieldAssets ==
    xpc = "returned" =>
        /\ \A i \in 1..Len(exportFiles) :
               exportFiles[i].path \in DOMAIN packageFiles =>
                   /\ task[i] # "skipped"
                   /\ \/ task[i] \in {"initFailed", "buildFailed", "minifyFailed"}
                      \/ Cardinality({k \in 1..Len(assets) :
                                          assets[k].path = exportFiles[i].path}) = 1
        /\ \A k, l \in 1..Len(assets) :
               k < l => ExportPosition(assets[k]) < ExportPosition(assets[l])

\* C30: in every state reachable by interleaved initialize and teardown calls
\* on one WebContainerManager, isInitialized is true exactly when a sandbox
\* handle is held, at most one sandbox is booted and not torn down, and once
\* a teardown call has completed (no initialize call started since) no
\* booted sandbox remains.
C30_ManagerLifecycle ==
    /\ wcIsInitialized <=> (webcontainer # 0)
    /\ Cardinality(live) <= 1
    /\ teardownCompleted => live = {}

====
